---- MODULE Spec2Model ----
(***************************************************************************)
(* A model of the browser file manager: the client class FileManager      *)
(* (src/public/app.js) and the express server behind it                   *)
(* (src/unnamed/part_000).                                                 *)
(*                                                                         *)
(* Paths are strings, handled character by character as the JavaScript    *)
(* does (startsWith, replace, split, the regular expression of            *)
(* normalizePath).  Every handler is cut at its awaits: one action per     *)
(* synchronous segment.  A request is handled by the server when it is     *)
(* issued; its response reaches the client in a later step, so responses   *)
(* are delivered in any order.                                             *)
(***************************************************************************)
EXTENDS Naturals, Sequences, FiniteSets, Bags, TLC

\* ------------------------------------------------------------------ bounds
\* the longest path a rendering or an ancestor walk descends
MaxDepth == 4
\* the calls of restoreExpandedChildren one synchronous segment may chain
MaxRestore == 16

\* ------------------------------------------------------------ JS strings
\* null and undefined
NULL == "<null>"

\* !p for a string or null
Falsy(p) == p = NULL \/ p = ""

CharAt(s, i) == SubSeq(s, i, i)

\* String.prototype.startsWith
StartsWith(s, pre) == Len(pre) <= Len(s) /\ SubSeq(s, 1, Len(pre)) = pre

\* String.prototype.indexOf, 1-based; 0 when pat does not occur
IndexOf(s, pat) ==
  LET hits == {i \in 1..(Len(s) + 1) :
                 i + Len(pat) - 1 <= Len(s) /\ SubSeq(s, i, i + Len(pat) - 1) = pat}
  IN IF hits = {} THEN 0 ELSE CHOOSE i \in hits : \A j \in hits : i <= j

\* String.prototype.replace with a string pattern: the first occurrence only
Replace(s, old, new) ==
  LET i == IndexOf(s, old)
  IN IF i = 0 THEN s
     ELSE SubSeq(s, 1, i - 1) \o new \o SubSeq(s, i + Len(old), Len(s))

RECURSIVE StripLeading(_)
StripLeading(s) ==
  IF Len(s) > 0 /\ CharAt(s, 1) = "/" THEN StripLeading(SubSeq(s, 2, Len(s))) ELSE s

RECURSIVE StripTrailing(_)
StripTrailing(s) ==
  IF Len(s) > 0 /\ CharAt(s, Len(s)) = "/"
  THEN StripTrailing(SubSeq(s, 1, Len(s) - 1)) ELSE s

\* p.replace(/^\/+|\/+$/g, "")
StripSlashes(s) == StripTrailing(StripLeading(s))

\* s.split("/").filter(Boolean)
RECURSIVE SplitFrom(_, _, _)
SplitFrom(s, i, cur) ==
  IF i > Len(s) THEN (IF cur = "" THEN <<>> ELSE <<cur>>)
  ELSE IF CharAt(s, i) = "/"
       THEN (IF cur = "" THEN <<>> ELSE <<cur>>) \o SplitFrom(s, i + 1, "")
       ELSE SplitFrom(s, i + 1, cur \o CharAt(s, i))

Segments(s) == SplitFrom(s, 1, "")

\* "/" + parts.join("/")
RECURSIVE JoinSegs(_)
JoinSegs(parts) ==
  IF parts = <<>> THEN ""
  ELSE "/" \o Head(parts) \o JoinSegs(Tail(parts))

\* s.split("/").length, the empty pieces counted
RECURSIVE CountSlashes(_)
CountSlashes(s) ==
  IF Len(s) = 0 THEN 0
  ELSE (IF CharAt(s, 1) = "/" THEN 1 ELSE 0) + CountSlashes(SubSeq(s, 2, Len(s)))

SplitLength(s) == CountSlashes(s) + 1

\* ------------------------------------------------------- path utilities
\* a normalizePath that puts a slash before what it is given; C16 tells it
\* from normalizePath
normalizePathPrepend(p) ==
  IF Falsy(p) THEN "/" ELSE "/" \o p

normalizePath(p) ==
  IF p = "/" THEN p
  ELSE IF Falsy(p) THEN "/"
  ELSE LET norm == StripSlashes(p)
       IN IF norm = "" THEN "/"
          ELSE IF StartsWith(norm, "/") THEN norm ELSE "/" \o norm

getParentPath(path) ==
  LET norm == normalizePath(path)
      parts == Segments(norm)
      popped == SubSeq(parts, 1, Len(parts) - 1)
  IN IF norm = "/" THEN NULL
     ELSE IF Len(popped) > 0 THEN JoinSegs(popped) ELSE "/"

getNameFromPath(path) ==
  LET parts == Segments(normalizePath(path))
  IN IF Len(parts) = 0 THEN "" ELSE parts[Len(parts)]

\* the ancestors of path, the root's child first, path itself left out
getAncestorPaths(path) ==
  LET normalized == normalizePath(path)
      parts == Segments(normalized)
  IN IF normalized = "/" THEN <<>>
     ELSE [i \in 1..(Len(parts) - 1) |-> JoinSegs(SubSeq(parts, 1, i))]

\* --------------------------------------------------------------- server
\* The upload directory is a function from the normalised path of each entry
\* (the root left out: it always exists) to [type, content].

\* the order in which fs.readdir lists the names of one directory
NameOrder == <<"a", "ab", "b", "c", "n", "x", "y">>

\* path.join(UPLOAD_DIR, p) as a key of the directory: empty pieces dropped
ServerKey(p) ==
  LET parts == IF p = NULL THEN <<>> ELSE Segments(p)
  IN IF parts = <<>> THEN "/" ELSE JoinSegs(parts)

JoinPath(dir, name) == IF dir = "/" THEN "/" \o name ELSE dir \o "/" \o name

Under(dir, p) == dir = "/" \/ StartsWith(p, dir \o "/")

FsExists(f, key) == key = "/" \/ key \in DOMAIN f

FsIsDir(f, key) == key = "/" \/ (key \in DOMAIN f /\ f[key].type = "folder")

\* fs.readdir
ReadDir(f, key) == SelectSeq(NameOrder, LAMBDA n : JoinPath(key, n) \in DOMAIN f)

ErrTree == [ok |-> FALSE, path |-> "", type |-> "", children |-> <<>>]

\* buildTree on the target of GET /api/tree?path=relPath: one level only
buildTree(f, relPath) ==
  LET key == ServerKey(relPath)
      items == ReadDir(f, key)
      child(n) ==
        LET ck == JoinPath(key, n)
        IN [name |-> n,
            path |-> ck,
            type |-> f[ck].type,
            hasChildren |-> f[ck].type = "folder" /\ ReadDir(f, ck) # <<>>]
  IN IF ~FsExists(f, key) THEN ErrTree
     ELSE [ok |-> TRUE,
           \* targetPath.replace(UPLOAD_DIR, ""): "" when no path was given
           path |-> IF Falsy(relPath) THEN "" ELSE relPath,
           type |-> IF FsIsDir(f, key) THEN "folder" ELSE "file",
           children |-> IF FsIsDir(f, key)
                        THEN [i \in 1..Len(items) |-> child(items[i])]
                        ELSE <<>>]

\* POST /api/folder: fs.mkdir(fullPath, {recursive: true})
MkdirOk(f, folderPath, name) ==
  LET full == JoinPath(ServerKey(folderPath), name)
      chain == getAncestorPaths(full) \o <<full>>
  IN \A i \in 1..Len(chain) : chain[i] \in DOMAIN f => f[chain[i]].type = "folder"

MkdirFs(f, folderPath, name) ==
  LET full == JoinPath(ServerKey(folderPath), name)
      chain == getAncestorPaths(full) \o <<full>>
      made == {chain[i] : i \in 1..Len(chain)} \ DOMAIN f
  IN [k \in DOMAIN f \cup made |->
        IF k \in DOMAIN f THEN f[k] ELSE [type |-> "folder", content |-> ""]]

\* DELETE /api/item: fs.stat, then rmdir recursive or unlink
DeleteOk(f, itemPath) ==
  ServerKey(itemPath) \in DOMAIN f

DeleteFs(f, itemPath) ==
  LET key == ServerKey(itemPath)
  IN [k \in {q \in DOMAIN f : q # key /\ ~StartsWith(q, key \o "/")} |-> f[k]]

\* PUT /api/rename: fs.rename(old, join(dirname(old), newName)); rename(2)
\* replaces a file by a file and an empty directory by a directory
RenameTarget(oldPath, newName) ==
  LET key == ServerKey(oldPath)
      par == getParentPath(key)
  IN JoinPath(IF par = NULL THEN "/" ELSE par, newName)

RenameOk(f, oldPath, newName) ==
  LET key == ServerKey(oldPath)
      tgt == RenameTarget(oldPath, newName)
  IN /\ key \in DOMAIN f
     /\ \/ tgt \notin DOMAIN f
        \/ tgt = key
        \/ f[key].type = "file" /\ f[tgt].type = "file"
        \/ f[key].type = "folder" /\ f[tgt].type = "folder" /\ ReadDir(f, tgt) = <<>>

RenameFs(f, oldPath, newName) ==
  LET key == ServerKey(oldPath)
      tgt == RenameTarget(oldPath, newName)
      moved == {q \in DOMAIN f : q = key \/ StartsWith(q, key \o "/")}
      to(q) == tgt \o SubSeq(q, Len(key) + 1, Len(q))
      kept == (DOMAIN f \ moved) \ {tgt}
  IN IF tgt = key THEN f
     ELSE [k \in kept \cup {to(q) : q \in moved} |->
             IF k \in kept THEN f[k]
             ELSE f[CHOOSE q \in moved : to(q) = k]]

\* oldPath.split("/") with its last piece replaced by newName, joined again
ServerNewPath(oldPath, newName) ==
  LET slashes == {i \in 1..Len(oldPath) : CharAt(oldPath, i) = "/"}
      last == IF slashes = {} THEN 0
              ELSE CHOOSE i \in slashes : \A j \in slashes : j <= i
  IN SubSeq(oldPath, 1, last) \o newName

\* the descriptions file after PUT /api/rename: the entry of oldPath alone moves
RenameDescriptions(d, oldPath, newName) ==
  LET newPath == ServerNewPath(oldPath, newName)
  IN IF oldPath \in DOMAIN d /\ d[oldPath] # ""
     THEN [k \in (DOMAIN d \ {oldPath}) \cup {newPath} |->
             IF k = newPath THEN d[oldPath] ELSE d[k]]
     ELSE d

\* GET /api/file-content: fs.readFile
ReadFileOk(f, filePath) ==
  LET key == ServerKey(filePath)
  IN key \in DOMAIN f /\ f[key].type = "file"

\* GET /api/description?path=: descriptions[filePath] || ""
GetDescription(d, filePath) == IF filePath \in DOMAIN d THEN d[filePath] ELSE ""

\* POST /api/description: an empty description deletes the entry
SaveDescriptions(d, filePath, description) ==
  IF description = "" THEN [k \in DOMAIN d \ {filePath} |-> d[k]]
  ELSE [k \in DOMAIN d \cup {filePath} |-> IF k = filePath THEN description ELSE d[k]]

\* POST /api/upload: multer stores the file in path.join(UPLOAD_DIR, body.path),
\* a directory it does not create; a null currentPath is sent as "null"
UploadTarget(folderPath, name) ==
  JoinPath(ServerKey(IF folderPath = NULL THEN "null" ELSE folderPath), name)

UploadOk(f, folderPath, name) ==
  /\ FsIsDir(f, ServerKey(IF folderPath = NULL THEN "null" ELSE folderPath))
  /\ UploadTarget(folderPath, name) \in DOMAIN f =>
       f[UploadTarget(folderPath, name)].type = "file"

UploadFs(f, folderPath, name) ==
  [k \in DOMAIN f \cup {UploadTarget(folderPath, name)} |->
     IF k = UploadTarget(folderPath, name)
     THEN [type |-> "file", content |-> "uploaded"] ELSE f[k]]

\* ---------------------------------------------------------------- state
VARIABLES
  fs,               \* server: the upload directory
  sdesc,            \* server: descriptions.json
  currentPath,      \* this.currentPath
  currentFile,      \* this.currentFile
  openFiles,        \* this.openFiles, a Map: the entries in insertion order
  activeTab,        \* this.activeTab
  descriptions,     \* this.descriptions
  selectedItem,     \* this.selectedItem
  renameData,       \* this.renameData
  folderCache,      \* this.folderCache
  expandedFolders,  \* this.expandedFolders
  dom,              \* #file-tree: the attached tree items, by data-path
  tabs,             \* #file-tabs-list: the .file-tab elements in order
  modal,            \* the modal that is shown
  tasks,            \* the suspended async calls, a bag
  left,             \* the user events, and the failing requests, still to come, by kind
  arg,              \* a call of a utility on its own: what it is given
  res               \* and what it has returned, call by call

vars == <<fs, sdesc, currentPath, currentFile, openFiles, activeTab, descriptions,
          selectedItem, renameData, folderCache, expandedFolders, dom, tabs, modal,
          tasks, left, arg, res>>

\* this.selectedItem = null
NoItem == [path |-> NULL, type |-> NULL]

\* The client's fields and its page as one record, handed through the
\* synchronous code of a handler.
Client ==
  [cache |-> folderCache, exp |-> expandedFolders, dom |-> dom, tasks |-> tasks,
   sel |-> selectedItem, cur |-> currentPath, act |-> activeTab, cf |-> currentFile,
   open |-> openFiles, tabs |-> tabs, descs |-> descriptions, rd |-> renameData,
   modal |-> modal]

Becomes(st) ==
  /\ folderCache' = st.cache
  /\ expandedFolders' = st.exp
  /\ dom' = st.dom
  /\ tasks' = st.tasks
  /\ selectedItem' = st.sel
  /\ currentPath' = st.cur
  /\ activeTab' = st.act
  /\ currentFile' = st.cf
  /\ openFiles' = st.open
  /\ tabs' = st.tabs
  /\ descriptions' = st.descs
  /\ renameData' = st.rd
  /\ modal' = st.modal
  /\ UNCHANGED <<arg, res>>

EmptyFcn == [x \in {} |-> x]

\* ------------------------------------------------------------- the bag
RECURSIVE SumCopies(_, _)
SumCopies(B, S) ==
  IF S = {} THEN 0
  ELSE LET t == CHOOSE x \in S : TRUE
       IN CopiesIn(t, B) + SumCopies(B, S \ {t})

Spawn(B, t) == B (+) SetToBag({t})

Finish(B, t) == B (-) SetToBag({t})

\* A suspended loadFolderChildren holds the container it was given.  The
\* container is one element; `live` says it is still attached to the document.
HoldsContainer(t) == t.k \in {"load", "refresh", "save"}

\* The containers that leave the document when the content of the container of
\* `key` is replaced (`whole`: when #file-tree itself is).
Detached(t, key, whole) ==
  /\ HoldsContainer(t)
  /\ t.live
  /\ whole \/ (t.path # key /\ Under(key, t.path))

Detach(B, key, whole) ==
  LET S == BagToSet(B)
      f(t) == IF Detached(t, key, whole) THEN [t EXCEPT !.live = FALSE] ELSE t
  IN [u \in {f(t) : t \in S} |-> SumCopies(B, {t \in S : f(t) = u})]

\* --------------------------------------------------------------- render
IsHeader(d, p) == p \in DOMAIN d /\ d[p].type = "folder"

\* (folder.children || []).map(c => ({...c, path: normalizePath(c.path)}))
NormalizeChildren(children) ==
  [i \in 1..Len(children) |->
     [children[i] EXCEPT !.path = normalizePath(children[i].path)]]

\* renderFolder and renderFile on the items of one listing, the cached
\* children of a folder inside it; an element keeps the place of the first
\* item that names its path
RECURSIVE RenderItems(_, _, _, _)
RenderItems(cache, exp, items, depth) ==
  IF items = <<>> \/ depth = 0 THEN EmptyFcn
  ELSE LET item == Head(items)
           normPath == normalizePath(item.path)
           cached == IF normPath \in DOMAIN cache THEN cache[normPath] ELSE <<>>
           el == IF item.type = "folder"
                 THEN [type |-> "folder", name |-> item.name,
                       hasChildren |-> item.hasChildren \/ cached # <<>>,
                       expanded |-> normPath \in exp]
                 ELSE [type |-> "file", name |-> item.name,
                       hasChildren |-> FALSE, expanded |-> FALSE]
           inside == IF item.type = "folder"
                     THEN RenderItems(cache, exp, cached, depth - 1)
                     ELSE EmptyFcn
       IN (normPath :> el) @@ inside @@ RenderItems(cache, exp, Tail(items), depth)

Restrict(f, S) == [x \in S |-> f[x]]

\* renderChildrenFromCache(key, container): container.innerHTML = "", then the
\* cached children; a container that left the document changes nothing of it
renderChildrenFromCache(st, key, live) ==
  LET norm == normalizePath(key)
      children == IF norm \in DOMAIN st.cache THEN st.cache[norm] ELSE <<>>
      kept == {p \in DOMAIN st.dom : ~(p # norm /\ Under(norm, p))}
  IN IF ~live THEN st
     ELSE [st EXCEPT
             !.dom = Restrict(st.dom, kept)
                       @@ RenderItems(st.cache, st.exp, children, MaxDepth),
             !.tasks = Detach(st.tasks, norm, FALSE)]

\* container.innerHTML = '<div class="error">...'
RenderError(st, key, live) ==
  LET kept == {p \in DOMAIN st.dom : ~(p # key /\ Under(key, p))}
  IN IF ~live THEN st
     ELSE [st EXCEPT !.dom = Restrict(st.dom, kept),
                     !.tasks = Detach(st.tasks, key, FALSE)]

\* renderTree(node) on the answer of GET /api/tree: #file-tree is emptied and
\* the root folder rendered, its children cached by renderFolder
renderTree(st, tree) ==
  LET children == NormalizeChildren(tree.children)
      cache2 == IF children # <<>> THEN ("/" :> children) @@ st.cache ELSE st.cache
      cached == IF "/" \in DOMAIN cache2 THEN cache2["/"] ELSE <<>>
      root == [type |-> "folder", name |-> "",
               hasChildren |-> children # <<>> \/ cached # <<>>,
               expanded |-> "/" \in st.exp]
  IN [st EXCEPT
        !.cache = cache2,
        !.dom = ("/" :> root) @@ RenderItems(cache2, st.exp, cached, MaxDepth),
        !.tasks = Detach(st.tasks, "/", TRUE)]

\* document.querySelectorAll(...) lists in document order: a folder, then what
\* its container holds, then its next sibling
RECURSIVE DocumentOrder(_, _, _)
DocumentOrder(d, dir, depth) ==
  LET names == SelectSeq(NameOrder, LAMBDA n : JoinPath(dir, n) \in DOMAIN d)
      sub[i \in 0..Len(names)] ==
        IF i = 0 THEN <<>>
        ELSE sub[i - 1] \o <<JoinPath(dir, names[i])>>
               \o DocumentOrder(d, JoinPath(dir, names[i]), depth - 1)
  IN IF depth = 0 THEN <<>> ELSE sub[Len(names)]

ExpandedHeaders(d) ==
  SelectSeq((IF "/" \in DOMAIN d THEN <<"/">> ELSE <<>>) \o DocumentOrder(d, "/", MaxDepth),
            LAMBDA p : d[p].type = "folder" /\ d[p].expanded)

\* ------------------------------------------------------ tabs, selection
OpenKeys(open) == {open[i].key : i \in 1..Len(open)}

MapHas(open, key) == key \in OpenKeys(open)

MapGet(open, key) == open[CHOOSE i \in 1..Len(open) : open[i].key = key]

\* Map.prototype.set: a key that is present keeps its place
MapSet(open, entry) ==
  IF MapHas(open, entry.key)
  THEN [i \in 1..Len(open) |-> IF open[i].key = entry.key THEN entry ELSE open[i]]
  ELSE Append(open, entry)

MapDelete(open, key) == SelectSeq(open, LAMBDA e : e.key # key)

\* the index of the element document.querySelector(`[data-file="..."]`) finds
TabIndex(tb, file) ==
  LET hits == {i \in 1..Len(tb) : tb[i].file = file}
  IN IF hits = {} THEN 0 ELSE CHOOSE i \in hits : \A j \in hits : i <= j

\* switchToTab; tab.scrollIntoView throws when no tab carries the path, and
\* the fields stay as they are
switchToTab(st, filePath) ==
  IF ~MapHas(st.open, filePath) THEN st
  ELSE IF TabIndex(st.tabs, filePath) = 0 THEN st
  ELSE [st EXCEPT !.act = filePath, !.cf = filePath]

\* closeTab that forgets to give up the active tab; C10 tells it from closeTab
closeTabKeepsActive(st, filePath) ==
  LET i == TabIndex(st.tabs, filePath)
      remaining == IF i = 0 THEN st.tabs
                   ELSE SubSeq(st.tabs, 1, i - 1) \o SubSeq(st.tabs, i + 1, Len(st.tabs))
  IN IF ~MapHas(st.open, filePath) THEN st
     ELSE [st EXCEPT !.open = MapDelete(st.open, filePath), !.tabs = remaining]

closeTab(st, filePath) ==
  LET i == TabIndex(st.tabs, filePath)
      remaining == IF i = 0 THEN st.tabs
                   ELSE SubSeq(st.tabs, 1, i - 1) \o SubSeq(st.tabs, i + 1, Len(st.tabs))
      st1 == [st EXCEPT !.open = MapDelete(st.open, filePath), !.tabs = remaining]
      st2 == [st1 EXCEPT !.act = NULL, !.cf = NULL]
  IN IF ~MapHas(st.open, filePath) THEN st
     ELSE IF st.act # filePath THEN st1
     ELSE IF remaining # <<>> THEN switchToTab(st2, remaining[Len(remaining)].file)
     ELSE st2

\* setSelectedItem, and the selectFolder(getParentPath(path)) inside it
setSelectedItem(st, path, type) ==
  [st EXCEPT !.sel = IF Falsy(path) THEN NoItem ELSE [path |-> path, type |-> type],
             !.cur = getParentPath(path)]

\* ------------------------------------------------- cache and its loading
\* an invalidation that matches keys by their raw string prefix; C1 tells it
\* from invalidateLoadedFolders
invalidateRawPrefix(st, path) ==
  LET norm == normalizePath(path)
  IN [st EXCEPT !.cache = Restrict(@, {key \in DOMAIN @ : ~StartsWith(key, norm)})]

\* an invalidation that removes the key of the path alone; C18 tells it from
\* invalidateLoadedFolders
invalidateExactKey(st, path) ==
  [st EXCEPT !.cache = Restrict(@, DOMAIN @ \ {normalizePath(path)})]

invalidateLoadedFolders(st, path) ==
  LET norm == normalizePath(path)
      prefix == norm \o "/"
  IN IF norm = "/" THEN [st EXCEPT !.cache = EmptyFcn]
     ELSE [st EXCEPT !.cache =
             Restrict(@, {key \in DOMAIN @ :
                            ~(key = norm \/ StartsWith(key, prefix))})]

\* loadFolderChildren past its cache test: the request is issued (and handled)
LoadTask(f, norm, restore, after) ==
  [k |-> "load", path |-> norm, live |-> TRUE, restore |-> restore, after |-> after,
   resp |-> buildTree(f, norm)]

\* a loadFolderChildren that asks the server whatever is cached; C2 tells it
\* from loadFolderChildren
loadFolderChildrenAlways(st, f, folderPath, restore, after) ==
  [st EXCEPT !.tasks = Spawn(@, LoadTask(f, normalizePath(folderPath), restore, after))]

\* a loadFolderChildren that joins the request in flight for its folder; C22
\* tells it from loadFolderChildren
loadFolderChildrenShared(st, f, folderPath, restore, after) ==
  LET norm == normalizePath(folderPath)
  IN IF norm \in DOMAIN st.cache THEN renderChildrenFromCache(st, norm, TRUE)
     ELSE IF \E t \in BagToSet(st.tasks) : t.k = "load" /\ t.path = norm THEN st
     ELSE [st EXCEPT !.tasks = Spawn(@, LoadTask(f, norm, restore, after))]

\* loadFolderChildren(folderPath, container) up to its return or its await: a
\* cached listing is rendered and nothing is asked; else the request is issued
loadFolderChildren(st, f, folderPath, restore, after) ==
  LET norm == normalizePath(folderPath)
  IN IF norm \in DOMAIN st.cache THEN renderChildrenFromCache(st, norm, TRUE)
     ELSE [st EXCEPT !.tasks = Spawn(@, LoadTask(f, norm, restore, after))]

\* a settling that caches an empty listing for a failed request; C3 tells it
\* from LoadSettled
LoadSettledCachesFailure(st, t, ok) ==
  renderChildrenFromCache(
    [st EXCEPT !.cache =
       (t.path :> IF ok /\ t.resp.ok THEN NormalizeChildren(t.resp.children) ELSE <<>>)
         @@ @],
    t.path, t.live)

\* loadFolderChildren after its await: the listing is cached and rendered, or
\* the error is shown
LoadSettled(st, t, ok) ==
  IF ok /\ t.resp.ok
  THEN renderChildrenFromCache(
         [st EXCEPT !.cache = (t.path :> NormalizeChildren(t.resp.children)) @@ @],
         t.path, t.live)
  ELSE RenderError(st, t.path, t.live)

\* a stable sort of seq by key, the keys from 0 to top
SortByKey(seq, key, top) ==
  LET upTo[k \in 0..top] ==
        (IF k = 0 THEN <<>> ELSE upTo[k - 1])
          \o SelectSeq(seq, LAMBDA p : key[p] = k)
  IN upTo[top]

RECURSIVE SetToSeq(_)
SetToSeq(S) ==
  IF S = {} THEN <<>>
  ELSE LET x == CHOOSE y \in S : TRUE IN <<x>> \o SetToSeq(S \ {x})

\* the forEach of restoreExpandedChildren: a cached folder is rendered at once
\* and its .then runs after this synchronous code; any other is requested
RECURSIVE RestoreEach(_, _, _, _)
RestoreEach(st, f, list, i) ==
  IF i > Len(list) THEN [st |-> st, then |-> <<>>]
  ELSE LET path == list[i]
           norm == normalizePath(path)
       IN IF ~(IsHeader(st.dom, path) /\ st.dom[path].hasChildren)
          THEN RestoreEach(st, f, list, i + 1)
          ELSE LET r == RestoreEach(loadFolderChildren(st, f, path, TRUE, "none"),
                                    f, list, i + 1)
               IN [st |-> r.st,
                   then |-> (IF norm \in DOMAIN st.cache THEN <<path>> ELSE <<>>)
                              \o r.then]

\* restoreExpandedChildren(parentPath) for each path of `queue` in turn, the
\* calls made by the .then callbacks joining the queue
RECURSIVE restoreExpandedChildren(_, _, _, _)
restoreExpandedChildren(st, f, queue, fuel) ==
  IF queue = <<>> \/ fuel = 0 THEN st
  ELSE LET normParent == normalizePath(Head(queue))
           prefix == IF normParent # "/" THEN normParent \o "/" ELSE "/"
           under == {p \in st.exp : StartsWith(p, prefix) /\ p # normParent}
           key == [p \in under |-> SplitLength(p)]
           list == SortByKey(SetToSeq(under), key, MaxDepth + 2)
           r == RestoreEach(st, f, list, 1)
       IN restoreExpandedChildren(r.st, f, Tail(queue) \o r.then, fuel - 1)

\* what a mutation does once its reload has settled
AfterReload(st, after) ==
  IF after = "delete" THEN setSelectedItem([st EXCEPT !.sel = NoItem], NULL, NULL)
  ELSE IF after = "rename" /\ st.act # NULL THEN switchToTab(st, st.act)
  ELSE st

\* ------------------------------------------------------------- loadTree
\* A suspended refreshTreeAndDescriptions: loadTree at `stage` ("root": the
\* request of the root; "loop": the load of prev[idx]; "anc": the load of the
\* idx-th ancestor of sel; "done") and loadDescriptions beside it.

\* the end of loadTree, and of Promise.all when the descriptions are in
loadTreeEnd(st, t) ==
  IF t.descDone THEN AfterReload(st, t.after)
  ELSE [st EXCEPT !.tasks =
          Spawn(@, [t EXCEPT !.stage = "done", !.idx = 0, !.path = "/",
                             !.live = FALSE, !.resp = ErrTree])]

loadTreeRestore(st, f, t) ==
  loadTreeEnd(IF st.exp # {} THEN restoreExpandedChildren(st, f, <<"/">>, MaxRestore)
              ELSE st, t)

\* the second look for the selected element, after its ancestors
loadTreeReselect(st, f, t) ==
  loadTreeRestore(IF t.sel \in DOMAIN st.dom
                  THEN setSelectedItem(st, t.sel, st.dom[t.sel].type)
                  ELSE st, f, t)

\* ensureAncestorsExpanded(prevSelected) from its i-th ancestor on
RECURSIVE ensureAncestorsExpanded(_, _, _, _)
ensureAncestorsExpanded(st, f, t, i) ==
  LET ancestors == getAncestorPaths(t.sel)
  IN IF i > Len(ancestors) THEN loadTreeReselect(st, f, t)
     ELSE LET anc == ancestors[i]
              st1 == [st EXCEPT !.exp = @ \cup {anc}, !.dom[anc].expanded = TRUE]
          IN IF ~IsHeader(st.dom, anc) THEN ensureAncestorsExpanded(st, f, t, i + 1)
             ELSE IF anc \notin DOMAIN st.cache /\ st.dom[anc].hasChildren
             THEN [st1 EXCEPT !.tasks =
                     Spawn(@, [t EXCEPT !.stage = "anc", !.idx = i,
                                        !.path = normalizePath(anc), !.live = TRUE,
                                        !.resp = buildTree(f, normalizePath(anc))])]
             ELSE ensureAncestorsExpanded(st1, f, t, i + 1)

\* the restoring of the selection
loadTreeSelect(st, f, t) ==
  IF Falsy(t.sel) THEN loadTreeRestore(st, f, t)
  ELSE IF t.sel \in DOMAIN st.dom
  THEN loadTreeRestore(setSelectedItem(st, t.sel, st.dom[t.sel].type), f, t)
  ELSE ensureAncestorsExpanded(st, f, t, 1)

\* the loop over prevExpanded from its i-th path on
RECURSIVE loadTreeLoop(_, _, _, _)
loadTreeLoop(st, f, t, i) ==
  IF i > Len(t.prev) THEN loadTreeSelect(st, f, t)
  ELSE LET path == t.prev[i]
       IN IF ~IsHeader(st.dom, path) THEN loadTreeLoop(st, f, t, i + 1)
          ELSE IF path \notin DOMAIN st.cache /\ st.dom[path].hasChildren
          THEN [st EXCEPT !.tasks =
                  Spawn(@, [t EXCEPT !.stage = "loop", !.idx = i,
                                     !.path = normalizePath(path), !.live = TRUE,
                                     !.resp = buildTree(f, normalizePath(path))])]
          ELSE loadTreeLoop(st, f, t, i + 1)

\* a sort that puts the deepest paths first; C8 tells it from SortExpanded
SortExpandedDeepestFirst(prev) ==
  SortByKey(prev, [p \in {prev[i] : i \in 1..Len(prev)} |->
                     MaxDepth + 1 - Len(Segments(p))],
            MaxDepth + 1)

\* prevExpanded.sort by the number of segments
SortExpanded(prev) ==
  SortByKey(prev, [p \in {prev[i] : i \in 1..Len(prev)} |-> Len(Segments(p))],
            MaxDepth + 1)

\* loadTree once the root has answered
loadTreeRoot(st, f, t) ==
  LET tree == t.resp
      st1 == [st EXCEPT !.cache =
                (normalizePath(tree.path) :> NormalizeChildren(tree.children)) @@ @]
      st2 == renderTree(st1, [tree EXCEPT !.path = normalizePath(tree.path)])
  IN loadTreeLoop(st2, f, [t EXCEPT !.prev = SortExpanded(t.prev)], 1)

\* the catch of loadTree
loadTreeFailed(st, t) ==
  loadTreeEnd([st EXCEPT !.dom = EmptyFcn, !.tasks = Detach(@, "/", TRUE)], t)

\* refreshTreeAndDescriptions up to its await: loadTree takes the expanded
\* headers and the selection and asks for the root, loadDescriptions asks too;
\* `was` keeps expandedFolders, selectedItem and currentPath as the call found
\* them, and the user events that were still to come
refreshTreeAndDescriptions(st, f, d, after) ==
  LET prevExpanded == ExpandedHeaders(st.dom)
      prevSelected == IF ~Falsy(st.sel.path) THEN st.sel.path
                      ELSE IF ~Falsy(st.cur) THEN st.cur ELSE NULL
  IN [st EXCEPT
        !.exp = {prevExpanded[i] : i \in 1..Len(prevExpanded)},
        !.tasks = Spawn(@, [k |-> "refresh", after |-> after, stage |-> "root",
                            descDone |-> FALSE, prev |-> prevExpanded,
                            sel |-> prevSelected, idx |-> 0, path |-> "/",
                            live |-> FALSE, resp |-> buildTree(f, ""),
                            dresp |-> d,
                            was |-> [exp |-> st.exp, sel |-> st.sel,
                                     cur |-> st.cur, left |-> left]])]

\* --------------------------------------------------- the rename rewrite
\* a rewrite that takes any path starting with the characters of oldPath; C5
\* tells it from RewritePath
RewriteRawPrefix(path, oldPath, newPath) ==
  IF StartsWith(path, oldPath) THEN Replace(path, oldPath, newPath) ELSE path

RewritePath(path, oldPath, newPath) ==
  IF path = oldPath THEN newPath
  ELSE IF StartsWith(path, oldPath \o "/") THEN Replace(path, oldPath, newPath)
  ELSE path

renameExpanded(exp, oldPath, newPath) ==
  {RewritePath(path, oldPath, newPath) : path \in exp}

\* the new folderCache; of two keys rewritten to one the Map keeps the one
\* set last, here any one of them
renameCache(cache, oldPath, newPath) ==
  LET data(path) ==
        IF path = oldPath THEN cache[path]
        ELSE IF StartsWith(path, oldPath \o "/")
        THEN [i \in 1..Len(cache[path]) |->
                [cache[path][i] EXCEPT !.path = Replace(@, oldPath, newPath)]]
        ELSE cache[path]
      keys == {RewritePath(path, oldPath, newPath) : path \in DOMAIN cache}
  IN [key \in keys |->
        data(CHOOSE path \in DOMAIN cache : RewritePath(path, oldPath, newPath) = key)]

RECURSIVE renameOpenFiles(_, _, _, _, _)
renameOpenFiles(open, oldPath, newPath, newName, acc) ==
  IF open = <<>> THEN acc
  ELSE LET e == Head(open)
           e2 == IF e.key = oldPath
                 THEN [e EXCEPT !.key = newPath, !.path = newPath, !.name = newName]
                 ELSE IF StartsWith(e.key, oldPath \o "/")
                 THEN [e EXCEPT !.key = Replace(e.key, oldPath, newPath),
                                !.path = Replace(e.key, oldPath, newPath)]
                 ELSE e
       IN renameOpenFiles(Tail(open), oldPath, newPath, newName, MapSet(acc, e2))

renameTabs(tb, oldPath, newPath, newName) ==
  [i \in 1..Len(tb) |->
     IF tb[i].file = oldPath THEN [file |-> newPath, name |-> newName]
     ELSE IF StartsWith(tb[i].file, oldPath \o "/")
     THEN [tb[i] EXCEPT !.file = Replace(@, oldPath, newPath)]
     ELSE tb[i]]

\* a rewriting that leaves the tabs, activeTab and selectedItem for the code
\* after the awaited reload; C23 tells it from renameRewrite
renameRewriteInParts(st, oldPath, newPath, newName) ==
  [st EXCEPT
     !.modal = "none",
     !.exp = renameExpanded(@, oldPath, newPath),
     !.cache = renameCache(@, oldPath, newPath),
     !.open = renameOpenFiles(@, oldPath, newPath, newName, <<>>)]

\* the synchronous rewriting of confirmRename, before its invalidation
renameRewrite(st, oldPath, newPath, newName) ==
  [st EXCEPT
     !.modal = "none",
     !.exp = renameExpanded(@, oldPath, newPath),
     !.cache = renameCache(@, oldPath, newPath),
     !.open = renameOpenFiles(@, oldPath, newPath, newName, <<>>),
     !.tabs = renameTabs(@, oldPath, newPath, newName),
     !.act = IF @ # NULL THEN RewritePath(@, oldPath, newPath) ELSE @,
     !.sel = IF @ # NoItem THEN [@ EXCEPT !.path = RewritePath(@, oldPath, newPath)]
             ELSE @]

\* ------------------------------------------------------------- handlers
\* toggleFolder(folderPath, childrenContainer) up to its await
toggleFolder(st, f, folderPath) ==
  LET st1 == [st EXCEPT !.exp = @ \cup {folderPath}, !.dom[folderPath].expanded = TRUE]
  IN IF folderPath \notin st.exp
     THEN IF folderPath \in DOMAIN st.cache
          THEN renderChildrenFromCache(st1, folderPath, TRUE)
          ELSE IF st.dom[folderPath].hasChildren
          THEN loadFolderChildren(st1, f, folderPath, FALSE, "none")
          ELSE st1
     ELSE [st EXCEPT !.exp = @ \ {folderPath}, !.dom[folderPath].expanded = FALSE]

\* an openFileInTab that asks the server whatever is open; C12 tells it from
\* openFileInTab
openFileInTabRefetch(st, f, d, filePath, fileName) ==
  LET normPath == normalizePath(filePath)
  IN [st EXCEPT !.tasks =
        Spawn(@, [k |-> "open", path |-> normPath, name |-> fileName,
                  ok |-> ReadFileOk(f, normPath),
                  content |-> IF ReadFileOk(f, normPath)
                              THEN f[ServerKey(normPath)].content ELSE "",
                  description |-> GetDescription(d, normPath)])]

\* openFileInTab up to its await
openFileInTab(st, f, d, filePath, fileName) ==
  LET normPath == normalizePath(filePath)
  IN IF MapHas(st.open, normPath) THEN switchToTab(st, normPath)
     ELSE [st EXCEPT !.tasks =
             Spawn(@, [k |-> "open", path |-> normPath, name |-> fileName,
                       ok |-> ReadFileOk(f, normPath),
                       content |-> IF ReadFileOk(f, normPath)
                                   THEN f[ServerKey(normPath)].content ELSE "",
                       description |-> GetDescription(d, normPath)])]

\* openFileInTab after its await: the entry, createTab, switchToTab
openFileSettled(st, t) ==
  switchToTab(
    [st EXCEPT !.open = MapSet(@, [key |-> t.path, name |-> t.name,
                                   content |-> t.content,
                                   description |-> t.description, path |-> t.path]),
               !.tabs = Append(@, [file |-> t.path, name |-> t.name])],
    t.path)

\* the reload that ends createFolder, deleteSelectedItem and confirmRename:
\* the parent's listing when its header is in the document, else everything
ReloadParent(st, f, d, parentPath, after) ==
  IF IsHeader(st.dom, parentPath)
  THEN IF parentPath \in DOMAIN st.cache
       THEN AfterReload(restoreExpandedChildren(
                          loadFolderChildren(st, f, parentPath, TRUE, after),
                          f, <<parentPath>>, MaxRestore), after)
       ELSE loadFolderChildren(st, f, parentPath, TRUE, after)
  ELSE refreshTreeAndDescriptions(st, f, d, after)

\* createFolder after its await
createFolderSettled(st, f, d) ==
  LET parentPath == normalizePath(IF Falsy(st.cur) THEN "/" ELSE st.cur)
      st1 == invalidateLoadedFolders(st, parentPath)
  IN IF IsHeader(st.dom, parentPath)
     THEN IF parentPath \in st.exp \/ parentPath = "/"
          THEN ReloadParent(st1, f, d, parentPath, "none")
          ELSE st1
     ELSE refreshTreeAndDescriptions(st1, f, d, "none")

\* the loop of deleteSelectedItem over Array.from(this.openFiles.keys())
RECURSIVE CloseDeleted(_, _, _)
CloseDeleted(st, keys, normPath) ==
  IF keys = <<>> THEN st
  ELSE LET filePath == Head(keys)
       IN CloseDeleted(IF \/ filePath = normPath
                          \/ StartsWith(filePath, normPath \o "/")
                          \/ (normPath = "/" /\ ~Falsy(filePath))
                       THEN closeTab(st, filePath) ELSE st,
                       Tail(keys), normPath)

\* deleteSelectedItem after its await
deleteSettled(st, f, d, normPath) ==
  LET st1 == CloseDeleted(st, [i \in 1..Len(st.open) |-> st.open[i].key], normPath)
      up == getParentPath(normPath)
      parentPath == IF Falsy(up) THEN "/" ELSE up
      st2 == invalidateLoadedFolders(st1, parentPath)
  IN ReloadParent(st2, f, d, parentPath, "delete")

\* confirmRename after its await
renameSettled(st, f, d, t) ==
  LET oldPath == normalizePath(st.rd.path)
      newPath == IF ~Falsy(t.newPath) THEN t.newPath
                 ELSE getParentPath(oldPath) \o "/" \o t.newName
      st1 == renameRewrite(st, oldPath, newPath, t.newName)
      up == getParentPath(oldPath)
      parentPath == IF Falsy(up) THEN "/" ELSE up
      st2 == invalidateLoadedFolders(st1, parentPath)
  IN ReloadParent(st2, f, d, parentPath, "rename")

\* uploadFiles after its awaits: the answers are not looked at
uploadSettled(st, f, d) ==
  LET parentPath == normalizePath(IF Falsy(st.cur) THEN "/" ELSE st.cur)
  IN ReloadParent(invalidateLoadedFolders(st, parentPath), f, d, parentPath, "none")

\* this.currentFile.split("/").slice(0, -1).join("/") || "/"
SplitParent(file) ==
  LET slashes == {i \in 1..Len(file) : CharAt(file, i) = "/"}
      last == IF slashes = {} THEN 0
              ELSE CHOOSE i \in slashes : \A j \in slashes : j <= i
      joined == IF last = 0 THEN "" ELSE SubSeq(file, 1, last - 1)
  IN IF joined = "" THEN "/" ELSE joined

\* saveDescription up to its await: POST /api/description is issued; `was`
\* keeps folderCache as the call found it
saveDescription(st, file, text, ok) ==
  [st EXCEPT !.tasks =
     Spawn(@, [k |-> "save", stage |-> "post", ok |-> ok, file |-> file,
               text |-> text, path |-> "/", live |-> FALSE, resp |-> ErrTree,
               was |-> [cache |-> st.cache]])]

\* saveDescription after the await of its request: this.currentFile is read
\* again; descriptions[null] is the property "null"
saveSettled(st, f, t) ==
  LET file == st.cf
      st1 == [st EXCEPT
                !.descs = ((IF file = NULL THEN "null" ELSE file) :> t.text) @@ @,
                !.open = IF MapHas(@, file)
                         THEN MapSet(@, [MapGet(@, file) EXCEPT !.description = t.text])
                         ELSE @]
      parentPath == SplitParent(file)
      norm == normalizePath(parentPath)
      st2 == invalidateLoadedFolders(st1, parentPath)
  IN IF file \in DOMAIN st.dom /\ IsHeader(st.dom, parentPath)
     THEN IF norm \in DOMAIN st2.cache
          THEN restoreExpandedChildren(renderChildrenFromCache(st2, norm, TRUE),
                                       f, <<parentPath>>, MaxRestore)
          ELSE [st2 EXCEPT !.tasks =
                  Spawn(@, [t EXCEPT !.stage = "load", !.path = norm, !.live = TRUE,
                                     !.resp = buildTree(f, norm)])]
     ELSE st1

\* saveDescription after the await of loadFolderChildren
saveReloaded(st, f, t, ok) ==
  restoreExpandedChildren(LoadSettled(st, t, ok), f, <<t.path>>, MaxRestore)

\* --------------------------------------------------------------- actions
Spend(kind) == left' = [left EXCEPT ![kind] = @ - 1]

\* what the server answers may be lost on its way: a transport error
Delivered(ok) ==
  /\ ok \/ left.fail > 0
  /\ left' = IF ok THEN left ELSE [left EXCEPT !.fail = @ - 1]

\* An item can be clicked when the folders above it are shown expanded, and
\* no modal covers the page.
Shown(p) ==
  /\ p \in DOMAIN dom
  /\ \A i \in 1..Len(getAncestorPaths(p)) :
        LET anc == getAncestorPaths(p)[i]
        IN anc \in DOMAIN dom => dom[anc].expanded
  /\ p # "/" /\ "/" \in DOMAIN dom => dom["/"].expanded

Pending(kind) == {t \in BagToSet(tasks) : t.k = kind}

Taken(t) == [Client EXCEPT !.tasks = Finish(tasks, t)]

\* a click on the toggle button of a folder
ToggleFolder ==
  \E p \in DOMAIN dom :
    /\ modal = "none" /\ left.toggle > 0
    /\ dom[p].type = "folder" /\ Shown(p)
    /\ Becomes(toggleFolder(Client, fs, p))
    /\ Spend("toggle")
    /\ UNCHANGED <<fs, sdesc>>

\* a click on a folder header: setSelectedItem, then selectFolder
ClickFolder ==
  \E p \in DOMAIN dom :
    /\ modal = "none" /\ left.select > 0
    /\ dom[p].type = "folder" /\ Shown(p)
    /\ Becomes([setSelectedItem(Client, p, "folder") EXCEPT !.cur = p])
    /\ Spend("select")
    /\ UNCHANGED <<fs, sdesc>>

\* a click on a file: openFileInTab, then setSelectedItem
ClickFile ==
  \E p \in DOMAIN dom :
    /\ modal = "none" /\ left.open > 0
    /\ dom[p].type = "file" /\ Shown(p)
    /\ Becomes(setSelectedItem(openFileInTab(Client, fs, sdesc, p, dom[p].name),
                               p, "file"))
    /\ Spend("open")
    /\ UNCHANGED <<fs, sdesc>>

OpenFileResponse ==
  \E t \in Pending("open") : \E ok \in {TRUE} \cup {b \in {FALSE} : t.ok} :
    /\ Delivered(ok)
    /\ Becomes(IF ok /\ t.ok THEN openFileSettled(Taken(t), t) ELSE Taken(t))
    /\ UNCHANGED <<fs, sdesc>>

\* a click on a tab
ClickTab ==
  \E i \in 1..Len(tabs) :
    /\ modal = "none" /\ left.tab > 0
    /\ Becomes(switchToTab(Client, tabs[i].file))
    /\ Spend("tab")
    /\ UNCHANGED <<fs, sdesc>>

\* a click on the cross of a tab
ClickCloseTab ==
  \E i \in 1..Len(tabs) :
    /\ modal = "none" /\ left.tab > 0
    /\ Becomes(closeTab(Client, tabs[i].file))
    /\ Spend("tab")
    /\ UNCHANGED <<fs, sdesc>>

\* a response after which the .then of restoreExpandedChildren does not run;
\* C31 tells it from LoadResponse
LoadResponseNoThen ==
  \E t \in Pending("load") : \E ok \in {TRUE} \cup {b \in {FALSE} : t.resp.ok} :
    /\ Delivered(ok)
    /\ Becomes(AfterReload(LoadSettled(Taken(t), t, ok), t.after))
    /\ UNCHANGED <<fs, sdesc>>

\* loadFolderChildren resumes, then the code that awaited it
LoadResponse ==
  \E t \in Pending("load") : \E ok \in {TRUE} \cup {b \in {FALSE} : t.resp.ok} :
    /\ Delivered(ok)
    /\ LET st1 == LoadSettled(Taken(t), t, ok)
           st2 == IF t.restore
                  THEN restoreExpandedChildren(st1, fs, <<t.path>>, MaxRestore)
                  ELSE st1
       IN Becomes(AfterReload(st2, t.after))
    /\ UNCHANGED <<fs, sdesc>>

\* the refresh button
RefreshClick ==
  /\ modal = "none" /\ left.refresh > 0
  /\ Becomes(refreshTreeAndDescriptions(Client, fs, sdesc, "none"))
  /\ Spend("refresh")
  /\ UNCHANGED <<fs, sdesc>>

\* loadTree resumes: the root has answered, or the load it awaited has
TreeResponse ==
  \E t \in {r \in Pending("refresh") : r.stage # "done"} :
    \E ok \in {TRUE} \cup {b \in {FALSE} : t.resp.ok} :
      /\ Delivered(ok)
      /\ Becomes(IF t.stage = "root"
                 THEN IF ok /\ t.resp.ok THEN loadTreeRoot(Taken(t), fs, t)
                      ELSE loadTreeFailed(Taken(t), t)
                 ELSE IF t.stage = "loop"
                 THEN loadTreeLoop(LoadSettled(Taken(t), t, ok), fs, t, t.idx + 1)
                 ELSE ensureAncestorsExpanded(LoadSettled(Taken(t), t, ok), fs, t,
                                              t.idx + 1))
      /\ UNCHANGED <<fs, sdesc>>

\* loadDescriptions resumes
DescriptionsResponse ==
  \E t \in {r \in Pending("refresh") : ~r.descDone} : \E ok \in BOOLEAN :
    /\ Delivered(ok)
    /\ LET st1 == [Taken(t) EXCEPT !.descs = IF ok THEN t.dresp ELSE @]
       IN Becomes(IF t.stage = "done" THEN AfterReload(st1, t.after)
                  ELSE [st1 EXCEPT !.tasks =
                          Spawn(@, [t EXCEPT !.descDone = TRUE, !.dresp = EmptyFcn])])
    /\ UNCHANGED <<fs, sdesc>>

\* the names typed into the two modals
TypedNames == {"c", "y"}

\* the create-folder modal confirmed with a name: POST /api/folder
CreateFolder ==
  \E name \in TypedNames : \E sent \in BOOLEAN :
    /\ modal = "none" /\ left.create > 0
    /\ sent \/ left.fail > 0
    /\ LET ok == sent /\ MkdirOk(fs, currentPath, name)
       IN /\ fs' = IF ok THEN MkdirFs(fs, currentPath, name) ELSE fs
          /\ Becomes([Client EXCEPT !.tasks =
                        Spawn(@, [k |-> "create", path |-> currentPath, name |-> name,
                                  ok |-> ok])])
    /\ left' = [left EXCEPT !.create = @ - 1, !.fail = IF sent THEN @ ELSE @ - 1]
    /\ UNCHANGED sdesc

CreateFolderResponse ==
  \E t \in Pending("create") :
    /\ Becomes(IF t.ok THEN createFolderSettled(Taken(t), fs, sdesc) ELSE Taken(t))
    /\ UNCHANGED <<fs, sdesc, left>>

\* the delete button (shown for a selected item that is not the root), the
\* confirm() answered yes: DELETE /api/item
DeleteSelectedItem ==
  \E sent \in BOOLEAN :
    /\ modal = "none" /\ left.delete > 0
    /\ selectedItem # NoItem /\ selectedItem.path # "/"
    /\ sent \/ left.fail > 0
    /\ LET normPath == normalizePath(selectedItem.path)
           ok == sent /\ DeleteOk(fs, normPath)
       IN /\ fs' = IF ok THEN DeleteFs(fs, normPath) ELSE fs
          /\ Becomes([Client EXCEPT !.tasks =
                        Spawn(@, [k |-> "delete", path |-> normPath, ok |-> ok])])
    /\ left' = [left EXCEPT !.delete = @ - 1, !.fail = IF sent THEN @ ELSE @ - 1]
    /\ UNCHANGED sdesc

DeleteResponse ==
  \E t \in Pending("delete") :
    /\ Becomes(IF t.ok THEN deleteSettled(Taken(t), fs, sdesc, t.path) ELSE Taken(t))
    /\ UNCHANGED <<fs, sdesc, left>>

\* the rename button: renameSelectedItem
RenameSelectedItem ==
  /\ modal = "none" /\ left.renameOpen > 0
  /\ selectedItem # NoItem /\ selectedItem.path # "/"
  /\ Becomes([Client EXCEPT !.rd = selectedItem, !.modal = "rename"])
  /\ Spend("renameOpen")
  /\ UNCHANGED <<fs, sdesc>>

\* the rename modal closed by its cancel button
CancelRename ==
  /\ modal = "rename"
  /\ Becomes([Client EXCEPT !.modal = "none"])
  /\ UNCHANGED <<fs, sdesc, left>>

\* the rename modal confirmed with a name: PUT /api/rename
ConfirmRename ==
  \E newName \in TypedNames : \E sent \in BOOLEAN :
    /\ modal = "rename" /\ left.rename > 0
    /\ sent \/ left.fail > 0
    /\ LET ok == sent /\ RenameOk(fs, renameData.path, newName)
       IN /\ fs' = IF ok THEN RenameFs(fs, renameData.path, newName) ELSE fs
          /\ sdesc' = IF ok THEN RenameDescriptions(sdesc, renameData.path, newName)
                      ELSE sdesc
          /\ Becomes([Client EXCEPT !.tasks =
                        Spawn(@, [k |-> "rename", newName |-> newName, ok |-> ok,
                                  newPath |-> ServerNewPath(renameData.path, newName)])])
    /\ left' = [left EXCEPT !.rename = @ - 1, !.fail = IF sent THEN @ ELSE @ - 1]

\* a response to confirmRename that is taken for a success whatever it says;
\* C13 tells it from RenameResponse
RenameResponseUnchecked ==
  \E t \in Pending("rename") :
    /\ Becomes(renameSettled(Taken(t), fs, sdesc, t))
    /\ UNCHANGED <<fs, sdesc, left>>

RenameResponse ==
  \E t \in Pending("rename") :
    /\ Becomes(IF t.ok THEN renameSettled(Taken(t), fs, sdesc, t) ELSE Taken(t))
    /\ UNCHANGED <<fs, sdesc, left>>

\* the names of the files picked for an upload
UploadedNames == {"c", "y"}

\* the file input changed, one file picked: POST /api/upload
UploadFiles ==
  \E name \in UploadedNames : \E sent \in BOOLEAN :
    /\ modal = "none" /\ left.upload > 0
    /\ sent \/ left.fail > 0
    /\ LET ok == sent /\ UploadOk(fs, currentPath, name)
       IN /\ fs' = IF ok THEN UploadFs(fs, currentPath, name) ELSE fs
          /\ Becomes([Client EXCEPT !.tasks =
                        Spawn(@, [k |-> "upload", path |-> currentPath, ok |-> ok])])
    /\ left' = [left EXCEPT !.upload = @ - 1, !.fail = IF sent THEN @ ELSE @ - 1]
    /\ UNCHANGED sdesc

UploadResponse ==
  \E t \in Pending("upload") :
    /\ Becomes(uploadSettled(Taken(t), fs, sdesc))
    /\ UNCHANGED <<fs, sdesc, left>>

\* what is typed into the description field
TypedTexts == {"", "note"}

\* the save button of the editor, shown while a file is open
SaveDescription ==
  \E text \in TypedTexts : \E sent \in BOOLEAN :
    /\ modal = "none" /\ left.save > 0
    /\ currentFile # NULL
    /\ sent \/ left.fail > 0
    /\ sdesc' = IF sent THEN SaveDescriptions(sdesc, currentFile, text) ELSE sdesc
    /\ Becomes(saveDescription(Client, currentFile, text, sent))
    /\ left' = [left EXCEPT !.save = @ - 1, !.fail = IF sent THEN @ ELSE @ - 1]
    /\ UNCHANGED fs

\* the request of saveDescription is answered
SaveDescriptionResponse ==
  \E t \in {r \in Pending("save") : r.stage = "post"} :
    /\ Becomes(IF t.ok THEN saveSettled(Taken(t), fs, t) ELSE Taken(t))
    /\ UNCHANGED <<fs, sdesc, left>>

\* the loadFolderChildren that saveDescription awaits resumes
SaveReloadResponse ==
  \E t \in {r \in Pending("save") : r.stage = "load"} :
    \E ok \in {TRUE} \cup {b \in {FALSE} : t.resp.ok} :
      /\ Delivered(ok)
      /\ Becomes(saveReloaded(Taken(t), fs, t, ok))
      /\ UNCHANGED <<fs, sdesc>>

\* ---------------------------------------------------------------- specs
\* the upload directory and descriptions.json when the page is opened
InitialFs ==
  [k \in {"/a", "/a/b", "/a/b/n", "/a/x", "/a/y", "/ab", "/ab/y"} |->
     IF k \in {"/a", "/a/b", "/ab"} THEN [type |-> "folder", content |-> ""]
     ELSE [type |-> "file", content |-> "content of " \o k]]

InitialDescriptions == ("/a/x" :> "about x")

\* the fields the constructor sets
Constructed ==
  [cache |-> EmptyFcn, exp |-> {}, dom |-> EmptyFcn, tasks |-> EmptyBag,
   sel |-> NoItem, cur |-> "/", act |-> NULL, cf |-> NULL, open |-> <<>>,
   tabs |-> <<>>, descs |-> EmptyFcn, rd |-> NoItem, modal |-> "none"]

\* the user events, by kind, that a behaviour may hold, and the requests that
\* may fail (a transport error, or a status that is not 2xx)
Budget(toggle, select, open, tab, create, delete, renameOpen, rename, refresh, fail) ==
  [toggle |-> toggle, select |-> select, open |-> open, tab |-> tab,
   create |-> create, delete |-> delete, renameOpen |-> renameOpen,
   rename |-> rename, refresh |-> refresh, fail |-> fail, upload |-> 0, save |-> 0]

\* the state the constructor leaves: init() has bound the events and awaits
\* its refreshTreeAndDescriptions
Start(budget) ==
  /\ fs = InitialFs
  /\ sdesc = InitialDescriptions
  /\ left = budget
  /\ arg = NULL
  /\ res = <<>>
  /\ LET st == refreshTreeAndDescriptions(Constructed, InitialFs,
                                          InitialDescriptions, "none")
     IN /\ folderCache = st.cache /\ expandedFolders = st.exp /\ dom = st.dom
        /\ tasks = st.tasks /\ selectedItem = st.sel /\ currentPath = st.cur
        /\ activeTab = st.act /\ currentFile = st.cf /\ openFiles = st.open
        /\ tabs = st.tabs /\ descriptions = st.descs /\ renameData = st.rd
        /\ modal = st.modal

\* folders are browsed, files opened, and an item is renamed
RenameToggles == 3
RenameSelects == 1
RenameOpens == 2
RenameModals == 1
RenameConfirms == 1

InitRename ==
  Start(Budget(RenameToggles, RenameSelects, RenameOpens, 0, 0, 0, RenameModals,
               RenameConfirms, 0, 0))

NextRename ==
  \/ ToggleFolder
  \/ ClickFolder
  \/ ClickFile
  \/ OpenFileResponse
  \/ LoadResponse
  \/ TreeResponse
  \/ DescriptionsResponse
  \/ RenameSelectedItem
  \/ CancelRename
  \/ ConfirmRename
  \/ RenameResponse

SpecRename == InitRename /\ [][NextRename]_vars

\* folders are browsed and one is created, and a request may fail
CacheToggles == 4
CacheSelects == 1
CacheCreates == 1
CacheFails == 1

InitCache ==
  Start(Budget(CacheToggles, CacheSelects, 0, 0, CacheCreates, 0, 0, 0, 0, CacheFails))

NextCache ==
  \/ ToggleFolder
  \/ ClickFolder
  \/ LoadResponse
  \/ TreeResponse
  \/ DescriptionsResponse
  \/ CreateFolder
  \/ CreateFolderResponse

SpecCache == InitCache /\ [][NextCache]_vars

\* files are opened, also twice before the first has answered, and an item is
\* deleted
DeleteToggles == 2
DeleteSelects == 1
DeleteOpens == 2
DeleteClicks == 1

InitDelete ==
  Start(Budget(DeleteToggles, DeleteSelects, DeleteOpens, 0, 0, DeleteClicks, 0, 0, 0, 0))

NextDelete ==
  \/ ToggleFolder
  \/ ClickFolder
  \/ ClickFile
  \/ OpenFileResponse
  \/ LoadResponse
  \/ TreeResponse
  \/ DescriptionsResponse
  \/ DeleteSelectedItem
  \/ DeleteResponse

SpecDelete == InitDelete /\ [][NextDelete]_vars

\* folders are expanded, one is created at the root, and the tree is refreshed
ReloadToggles == 3
ReloadCreates == 1
ReloadRefreshes == 1

InitReload ==
  Start(Budget(ReloadToggles, 0, 0, 0, ReloadCreates, 0, 0, 0, ReloadRefreshes, 0))

NextReload ==
  \/ ToggleFolder
  \/ LoadResponse
  \/ RefreshClick
  \/ TreeResponse
  \/ DescriptionsResponse
  \/ CreateFolder
  \/ CreateFolderResponse

SpecReload == InitReload /\ [][NextReload]_vars

\* files are opened, tabs switched and closed, items deleted and renamed
TabsToggles == 2
TabsSelects == 1
TabsOpens == 2
TabsClicks == 1
TabsDeletes == 1
TabsModals == 1
TabsConfirms == 1

InitTabs ==
  Start(Budget(TabsToggles, TabsSelects, TabsOpens, TabsClicks, 0, TabsDeletes,
               TabsModals, TabsConfirms, 0, 0))

NextTabs ==
  \/ ToggleFolder
  \/ ClickFolder
  \/ ClickFile
  \/ OpenFileResponse
  \/ ClickTab
  \/ ClickCloseTab
  \/ LoadResponse
  \/ TreeResponse
  \/ DescriptionsResponse
  \/ DeleteSelectedItem
  \/ DeleteResponse
  \/ RenameSelectedItem
  \/ CancelRename
  \/ ConfirmRename
  \/ RenameResponse

SpecTabs == InitTabs /\ [][NextTabs]_vars

\* folders are browsed, a file is opened, and one mutation is made, of any
\* kind: a folder created, a file uploaded, an item deleted or renamed, a
\* description saved; a request may fail
MutateToggles == 2
MutateSelects == 1
MutateOpens == 1
MutateCalls == 1
MutateFails == 1

MutateBudgets ==
  LET base == Budget(MutateToggles, MutateSelects, MutateOpens, 0, 0, 0, 0, 0, 0,
                     MutateFails)
  IN {[base EXCEPT !.create = MutateCalls],
      [base EXCEPT !.upload = MutateCalls],
      [base EXCEPT !.delete = MutateCalls],
      [base EXCEPT !.renameOpen = MutateCalls, !.rename = MutateCalls],
      [base EXCEPT !.save = MutateCalls]}

InitMutate == \E budget \in MutateBudgets : Start(budget)

NextMutate ==
  \/ ToggleFolder
  \/ ClickFolder
  \/ ClickFile
  \/ OpenFileResponse
  \/ LoadResponse
  \/ TreeResponse
  \/ DescriptionsResponse
  \/ CreateFolder
  \/ CreateFolderResponse
  \/ UploadFiles
  \/ UploadResponse
  \/ DeleteSelectedItem
  \/ DeleteResponse
  \/ RenameSelectedItem
  \/ CancelRename
  \/ ConfirmRename
  \/ RenameResponse
  \/ SaveDescription
  \/ SaveDescriptionResponse
  \/ SaveReloadResponse

SpecMutate == InitMutate /\ [][NextMutate]_vars

\* a folder is expanded and selected, the selected item is deleted, and the
\* tree is refreshed, also before the delete is answered
StaleToggles == 2
StaleSelects == 1
StaleDeletes == 1
StaleRefreshes == 1

InitStale ==
  Start(Budget(StaleToggles, StaleSelects, 0, 0, 0, StaleDeletes, 0, 0,
               StaleRefreshes, 0))

NextStale ==
  \/ ToggleFolder
  \/ ClickFolder
  \/ LoadResponse
  \/ RefreshClick
  \/ TreeResponse
  \/ DescriptionsResponse
  \/ DeleteSelectedItem
  \/ DeleteResponse

SpecStale == InitStale /\ [][NextStale]_vars

\* The path utilities called on their own.  No handler runs: the fields are
\* as the constructor leaves them and nothing is awaited.
Idle ==
  /\ fs = InitialFs /\ sdesc = InitialDescriptions
  /\ left = Budget(0, 0, 0, 0, 0, 0, 0, 0, 0, 0)
  /\ expandedFolders = Constructed.exp /\ dom = Constructed.dom
  /\ tasks = Constructed.tasks /\ selectedItem = Constructed.sel
  /\ currentPath = Constructed.cur /\ activeTab = Constructed.act
  /\ currentFile = Constructed.cf /\ openFiles = Constructed.open
  /\ tabs = Constructed.tabs /\ descriptions = Constructed.descs
  /\ renameData = Constructed.rd /\ modal = Constructed.modal

\* the strings of at most n characters over the letters of a path
PathLetters == {"/", "a", "b"}

RECURSIVE Strings(_)
Strings(n) ==
  IF n = 0 THEN {""}
  ELSE LET shorter == Strings(n - 1)
       IN shorter \cup {s \o c : s \in shorter, c \in PathLetters}

\* normalizePath is called on a string, or on null, and again on what it
\* returned
MaxPathLen == 5
NormalizeCalls == 2

InitNormalize ==
  /\ Idle
  /\ folderCache = Constructed.cache
  /\ arg \in Strings(MaxPathLen) \cup {NULL}
  /\ res = <<>>

NormalizeCall ==
  /\ Len(res) < NormalizeCalls
  /\ res' = Append(res, normalizePath(IF res = <<>> THEN arg ELSE res[Len(res)]))
  /\ UNCHANGED <<fs, sdesc, currentPath, currentFile, openFiles, activeTab,
                 descriptions, selectedItem, renameData, folderCache,
                 expandedFolders, dom, tabs, modal, tasks, left, arg>>

NextNormalize == NormalizeCall

SpecNormalize == InitNormalize /\ [][NextNormalize]_vars

\* invalidateLoadedFolders is called on a cache that holds any of these keys
CachedKeys == {"/", "/a", "/a/b", "/a/bc", "/ab", "/x"}

InvalidateInputs == {"/", "/a", "/a/", "a", "/a/b", "/x"}

\* a listing as loadFolderChildren caches it
ListingOf(key) ==
  <<[name |-> "f", path |-> JoinPath(key, "f"), type |-> "file", hasChildren |-> FALSE]>>

InvalidateCalls == 1

InitInvalidate ==
  /\ Idle
  /\ folderCache \in {[key \in S |-> ListingOf(key)] : S \in SUBSET CachedKeys}
  /\ arg \in InvalidateInputs
  /\ res = <<>>

\* res takes the keys the call found
InvalidateCall ==
  /\ Len(res) < InvalidateCalls
  /\ folderCache' = invalidateLoadedFolders(Client, arg).cache
  /\ res' = Append(res, DOMAIN folderCache)
  /\ UNCHANGED <<fs, sdesc, currentPath, currentFile, openFiles, activeTab,
                 descriptions, selectedItem, renameData, expandedFolders, dom,
                 tabs, modal, tasks, left, arg>>

NextInvalidate == InvalidateCall

SpecInvalidate == InitInvalidate /\ [][NextInvalidate]_vars

\* folders are browsed, a file is opened, and its description is saved
DescribeToggles == 3
DescribeOpens == 1
DescribeSaves == 1

InitDescribe ==
  Start([Budget(DescribeToggles, 0, DescribeOpens, 0, 0, 0, 0, 0, 0, 0)
           EXCEPT !.save = DescribeSaves])

NextDescribe ==
  \/ ToggleFolder
  \/ ClickFile
  \/ OpenFileResponse
  \/ LoadResponse
  \/ TreeResponse
  \/ DescriptionsResponse
  \/ SaveDescription
  \/ SaveDescriptionResponse
  \/ SaveReloadResponse

SpecDescribe == InitDescribe /\ [][NextDescribe]_vars

\* folders are created one after another, also one that exists already
CollideToggles == 2
CollideSelects == 1
CollideCreates == 2

InitCollide ==
  Start(Budget(CollideToggles, CollideSelects, 0, 0, CollideCreates, 0, 0, 0, 0, 0))

NextCollide ==
  \/ ToggleFolder
  \/ ClickFolder
  \/ LoadResponse
  \/ TreeResponse
  \/ DescriptionsResponse
  \/ CreateFolder
  \/ CreateFolderResponse

SpecCollide == InitCollide /\ [][NextCollide]_vars

\* nested folders are expanded and a folder is created, which reloads the
\* listing of its parent and re-expands what was expanded under it; every
\* request is answered in the end
RestoreToggles == 3
RestoreSelects == 1
RestoreCreates == 1

InitRestore ==
  Start(Budget(RestoreToggles, RestoreSelects, 0, 0, RestoreCreates, 0, 0, 0, 0, 0))

NextRestore ==
  \/ ToggleFolder
  \/ ClickFolder
  \/ LoadResponse
  \/ TreeResponse
  \/ DescriptionsResponse
  \/ CreateFolder
  \/ CreateFolderResponse

\* The promise of every fetch settles: weak fairness of the responses taken
\* together, WF_vars(LoadResponse \/ TreeResponse \/ DescriptionsResponse \/
\* CreateFolderResponse), written out.  A response is enabled exactly when a
\* request is outstanding, and the steps that leave `left` alone are exactly
\* the responses, no request failing here.
Answered == []<>(tasks = EmptyBag) \/ []<><<left' = left>>_vars

SpecRestore == InitRestore /\ [][NextRestore]_vars /\ Answered

\* --------------------------------------------------------------- claims
\* p is oldPath followed by a slash and more
Below(p, oldPath) ==
  Len(p) > Len(oldPath) /\ SubSeq(p, 1, Len(oldPath) + 1) = oldPath \o "/"

\* the path the rename rule gives p: oldPath itself becomes newPath, a path
\* below oldPath has that prefix replaced and keeps its suffix, any other
\* path stays
Moved(p, oldPath, newPath) ==
  IF p = oldPath THEN newPath
  ELSE IF Below(p, oldPath) THEN newPath \o SubSeq(p, Len(oldPath) + 1, Len(p))
  ELSE p

\* the paths handed to invalidate, some of them not canonical
InvalidatedPaths == {"/", "", "/a", "/a/", "a", "/a/b", "/ab", "/c"}

\* C1: invalidateLoadedFolders(path) removes from FolderCache the keys that
\* are normalize(path) or start with normalize(path) and a slash, and all of
\* them when that is the root; every other key keeps its value, and
\* ExpandedSet, OpenFile, activeTab and SelectedItem stay as they were.
C1_Invalidate ==
  \A path \in InvalidatedPaths :
    LET norm == normalizePath(path)
        st == invalidateLoadedFolders(Client, path)
    IN /\ DOMAIN st.cache =
            {k \in DOMAIN folderCache : ~(norm = "/" \/ k = norm \/ Below(k, norm))}
       /\ \A k \in DOMAIN st.cache : st.cache[k] = folderCache[k]
       /\ st.exp = expandedFolders
       /\ st.open = openFiles
       /\ st.act = activeTab
       /\ st.sel = selectedItem

\* a folder is being created in /a while /a, a folder below it, /ab and the
\* root are cached: the response invalidates /a
C1_Witness ==
  /\ {"/", "/a", "/a/b", "/ab"} \subseteq DOMAIN folderCache
  /\ currentPath = "/a"
  /\ \E t \in BagToSet(tasks) : t.k = "create" /\ t.ok

\* C2: loadFolderChildren of a cached folder, and the expanding toggleFolder
\* of one, issue no request and leave FolderCache as it was.
C2_CachedNoFetch ==
  \A key \in DOMAIN folderCache :
    /\ \A folderPath \in {key, key \o "/"} :
         LET st == loadFolderChildren(Client, fs, folderPath, FALSE, "none")
         IN BagCardinality(st.tasks) = BagCardinality(tasks) /\ st.cache = folderCache
    /\ key \in DOMAIN dom /\ dom[key].type = "folder" /\ key \notin expandedFolders =>
         LET st == toggleFolder(Client, fs, key)
         IN BagCardinality(st.tasks) = BagCardinality(tasks) /\ st.cache = folderCache

\* /a was loaded and collapsed, and can be expanded again
C2_Witness ==
  /\ "/a" \in DOMAIN folderCache
  /\ "/a" \in DOMAIN dom /\ ~dom["/a"].expanded /\ "/a" \notin expandedFolders
  /\ Shown("/a") /\ modal = "none" /\ left.toggle > 0

\* the loads in flight
LoadsInFlight == {t \in BagToSet(tasks) : t.k = "load"}

\* C3: loadFolderChildren of a folder that is not cached issues one request,
\* for that folder's level; when it succeeds, FolderCache holds under the
\* normalized path the children the server returned, in its order, their paths
\* normalized, and the other keys as they were; when it fails FolderCache
\* stays as it was.
C3_UncachedOneFetch ==
  /\ \A p \in DOMAIN dom :
       dom[p].type = "folder" /\ normalizePath(p) \notin DOMAIN folderCache =>
         \A folderPath \in {p, p \o "/"} :
           LET st == loadFolderChildren(Client, fs, folderPath, FALSE, "none")
           IN /\ \E t \in BagToSet(st.tasks) :
                   /\ t.k = "load" /\ t.path = normalizePath(p)
                   /\ t.resp = buildTree(fs, normalizePath(p))
                   /\ st.tasks = tasks (+) SetToBag({t})
              /\ st.cache = folderCache
  /\ \A t \in LoadsInFlight :
       LET done == LoadSettled(Taken(t), t, TRUE).cache
           failed == LoadSettled(Taken(t), t, FALSE).cache
       IN /\ failed = folderCache
          /\ ~t.resp.ok => done = folderCache
          /\ t.resp.ok =>
               /\ DOMAIN done = DOMAIN folderCache \cup {t.path}
               /\ \A k \in DOMAIN folderCache \ {t.path} : done[k] = folderCache[k]
               /\ Len(done[t.path]) = Len(t.resp.children)
               /\ \A i \in 1..Len(t.resp.children) :
                    /\ done[t.path][i].name = t.resp.children[i].name
                    /\ done[t.path][i].type = t.resp.children[i].type
                    /\ done[t.path][i].path = normalizePath(t.resp.children[i].path)

\* the listing of /a is cached as the server gave it, the load of /ab failed
\* and left no entry
C3_Witness ==
  /\ "/a" \in DOMAIN folderCache
  /\ [i \in 1..Len(folderCache["/a"]) |-> folderCache["/a"][i].path]
       = <<"/a/b", "/a/x", "/a/y">>
  /\ "/ab" \in expandedFolders /\ "/ab" \notin DOMAIN folderCache
  /\ left.fail = 0 /\ LoadsInFlight = {}

\* the successful renames whose response has not been delivered
RenamesInFlight == {t \in BagToSet(tasks) : t.k = "rename" /\ t.ok}

\* this step delivers the response of the rename t
RenameDelivered(t) ==
  t \in RenamesInFlight /\ CopiesIn(t, tasks') < CopiesIn(t, tasks)

\* what OpenFile maps a key to
Entries(open) ==
  {[key |-> open[i].key, name |-> open[i].name, content |-> open[i].content,
    description |-> open[i].description] : i \in 1..Len(open)}

\* C4: the step that delivers a successful rename of oldPath to newName
\* leaves in OpenFile exactly the entries it held, the entry of oldPath now
\* under newPath and named newName, the entries below oldPath under their
\* moved keys with name and content as they were, every other entry as it was.
C4_OpenFilesRenamed ==
  [][\A t \in RenamesInFlight :
       RenameDelivered(t) =>
         Entries(openFiles') =
           {[e EXCEPT !.key = Moved(e.key, renameData.path, t.newPath),
                      !.name = IF e.key = renameData.path THEN t.newName ELSE @]
              : e \in Entries(openFiles)}]_vars

\* the rewrite of C4 where newPath is not the key of an open file already
C4_RenamedApart ==
  [][\A t \in RenamesInFlight :
       RenameDelivered(t)
         /\ (\A i \in 1..Len(openFiles) :
               openFiles[i].key # renameData.path => openFiles[i].key # t.newPath) =>
         Entries(openFiles') =
           {[e EXCEPT !.key = Moved(e.key, renameData.path, t.newPath),
                      !.name = IF e.key = renameData.path THEN t.newName ELSE @]
              : e \in Entries(openFiles)}]_vars

C6_CacheRenamed ==
  \A t \in RenamesInFlight :
    LET oldPath == renameData.path
        cache == renameRewrite(Client, normalizePath(oldPath), t.newPath,
                               t.newName).cache
    IN t.newPath # oldPath =>
         \A key \in DOMAIN cache :
           /\ key # oldPath /\ ~Below(key, oldPath)
           /\ \A i \in 1..Len(cache[key]) :
                cache[key][i].path # oldPath /\ ~Below(cache[key][i].path, oldPath)

\* C6 for the children stored under the key that was oldPath
C6_ChildrenOfRenamed ==
  \A t \in RenamesInFlight :
    LET oldPath == renameData.path
        cache == renameRewrite(Client, normalizePath(oldPath), t.newPath,
                               t.newName).cache
    IN t.newPath # oldPath /\ oldPath \in DOMAIN folderCache =>
         \A i \in 1..Len(cache[t.newPath]) : ~Below(cache[t.newPath][i].path, oldPath)

\* the successful deletes whose response has not been delivered
DeletesInFlight == {t \in BagToSet(tasks) : t.k = "delete" /\ t.ok}

DeleteDelivered(t) ==
  t \in DeletesInFlight /\ CopiesIn(t, tasks') < CopiesIn(t, tasks)

\* the tabs that are not of path nor of a file below it
TabsBeside(tb, path) ==
  SelectSeq(tb, LAMBDA x : ~(x.file = path \/ Below(x.file, path)))

\* C7: the step that delivers a successful delete of path closes every tab of
\* path or of a file below it, with its OpenFile entry, and leaves every
\* other tab and entry as it was.
C7_TabsClosed ==
  [][\A t \in DeletesInFlight :
       DeleteDelivered(t) =>
         /\ tabs' = TabsBeside(tabs, t.path)
         /\ Entries(openFiles') =
              {e \in Entries(openFiles) : ~(e.key = t.path \/ Below(e.key, t.path))}]_vars

\* C7 where no two tabs are of one file
C7_TabsClosedOnce ==
  [][\A t \in DeletesInFlight :
       DeleteDelivered(t)
         /\ (\A i, j \in 1..Len(tabs) : tabs[i].file = tabs[j].file => i = j) =>
         /\ tabs' = TabsBeside(tabs, t.path)
         /\ Entries(openFiles') =
              {e \in Entries(openFiles) : ~(e.key = t.path \/ Below(e.key, t.path))}]_vars

\* a is a proper ancestor of d
ProperAncestor(a, d) == (a = "/" /\ d # "/") \/ (a # "/" /\ Below(d, a))

\* the reloads that await the load of a path of prevExpanded
ReloadsInLoop == {t \in BagToSet(tasks) : t.k = "refresh" /\ t.stage = "loop"}

\* C8: while loadTree re-expands the previously expanded paths, every path it
\* has reached stands after all its proper ancestors among them: the load of
\* an ancestor has been awaited before a descendant is looked at.
C8_AncestorsFirst ==
  \A t \in ReloadsInLoop :
    \A i, j \in 1..Len(t.prev) :
      j <= t.idx /\ ProperAncestor(t.prev[i], t.prev[j]) => i < j

\* loadTree awaits the load of /a/b, /a was expanded too and is cached
C8_Witness ==
  \E t \in ReloadsInLoop :
    /\ t.path = "/a/b"
    /\ \E i \in 1..Len(t.prev) : t.prev[i] = "/a"
    /\ "/a" \in DOMAIN folderCache

\* the refreshes in flight
Refreshes == {t \in BagToSet(tasks) : t.k = "refresh"}

\* the refreshes in flight in B that started as t did
RefreshesLike(B, t) ==
  SumCopies(B, {u \in BagToSet(B) :
                  /\ u.k = "refresh" /\ u.was = t.was /\ u.sel = t.sel
                  /\ u.after = t.after
                  /\ {u.prev[i] : i \in 1..Len(u.prev)}
                       = {t.prev[i] : i \in 1..Len(t.prev)}})

\* this step ends the refresh t
RefreshCompleted(t) == RefreshesLike(tasks', t) < RefreshesLike(tasks, t)

\* the user has toggled and selected nothing since the refresh t started
Untouched(t) ==
  /\ t.was.left.toggle = left.toggle
  /\ t.was.left.select = left.select
  /\ t.was.left.open = left.open

\* C9: when refreshTreeAndDescriptions completes, the user having toggled and
\* selected nothing meanwhile, a path that exists on the server is in
\* ExpandedSet iff it was when the refresh started, and SelectedItem is what
\* it was then.
C9_Persist ==
  [][\A t \in Refreshes :
       RefreshCompleted(t) /\ Untouched(t) =>
         /\ \A p \in DOMAIN fs' \cup {"/"} :
              p \in expandedFolders' <=> p \in t.was.exp
         /\ selectedItem' = t.was.sel]_vars

\* C9 for ExpandedSet alone
C9_ExpandedPersist ==
  [][\A t \in Refreshes :
       RefreshCompleted(t) /\ Untouched(t) =>
         \A p \in DOMAIN fs' \cup {"/"} :
           p \in expandedFolders' <=> p \in t.was.exp]_vars

\* C10: activeTab is null or a key of OpenFile.
C10_ActiveTabOpen ==
  activeTab = NULL \/ \E i \in 1..Len(openFiles) : openFiles[i].key = activeTab

\* files were opened, a tab clicked, an item deleted and a folder renamed, and
\* the file that is active lies in the renamed folder
C10_Witness ==
  /\ left.open = 0 /\ left.tab = 0 /\ left.delete = 0 /\ left.rename = 0
  /\ tasks = EmptyBag
  /\ activeTab = "/c/x"

\* the paths closeTab is handed: those of the tabs and of the entries, and one
\* that is not open
ClosedPaths ==
  {tabs[i].file : i \in 1..Len(tabs)} \cup {openFiles[i].key : i \in 1..Len(openFiles)}
    \cup {"/a/q"}

HasEntry(path) == \E i \in 1..Len(openFiles) : openFiles[i].key = path

\* the tab list without the first tab of path
TabsWithout(path) ==
  LET hits == {i \in 1..Len(tabs) : tabs[i].file = path}
      first == CHOOSE i \in hits : \A j \in hits : i <= j
  IN IF hits = {} THEN tabs
     ELSE [i \in 1..(Len(tabs) - 1) |-> IF i < first THEN tabs[i] ELSE tabs[i + 1]]

\* every tab has its entry, every entry one tab
TabsMatchEntries ==
  /\ \A i, j \in 1..Len(tabs) : tabs[i].file = tabs[j].file => i = j
  /\ {tabs[i].file : i \in 1..Len(tabs)} = {openFiles[i].key : i \in 1..Len(openFiles)}

\* C11: closeTab of the active tab makes the last created of the remaining
\* tabs active, or none when no tab remains; closeTab of another tab leaves
\* activeTab as it was; closeTab of a path that is not open changes nothing.
C11_CloseTab ==
  \A path \in ClosedPaths :
    LET st == closeTab(Client, path)
        remaining == TabsWithout(path)
    IN /\ ~HasEntry(path) => st = Client
       /\ HasEntry(path) /\ activeTab # path => st.act = activeTab
       /\ HasEntry(path) /\ activeTab = path =>
            st.act = IF remaining = <<>> THEN NULL
                     ELSE remaining[Len(remaining)].file

\* C11 in the states where the tabs and the entries of OpenFile match
C11_CloseTabMatched ==
  TabsMatchEntries =>
    \A path \in ClosedPaths :
      LET st == closeTab(Client, path)
          remaining == TabsWithout(path)
      IN /\ ~HasEntry(path) => st = Client
         /\ HasEntry(path) /\ activeTab # path => st.act = activeTab
         /\ HasEntry(path) /\ activeTab = path =>
              st.act = IF remaining = <<>> THEN NULL
                       ELSE remaining[Len(remaining)].file

\* C12: openFileInTab of a path that is a key of OpenFile makes it the active
\* tab, issues no request, and leaves OpenFile and the tab list as they were.
C12_OpenAgain ==
  \A i \in 1..Len(openFiles) :
    \A filePath \in {openFiles[i].key, openFiles[i].key \o "/"} :
      LET st == openFileInTab(Client, fs, sdesc, filePath, openFiles[i].name)
      IN /\ st.act = openFiles[i].key
         /\ st.tasks = tasks
         /\ st.open = openFiles
         /\ st.tabs = tabs

\* both clicks on files are spent, no tab was clicked and nothing deleted or
\* renamed, every request has been answered, and one file is open in one tab:
\* the second click was on the file that was open
C12_Witness ==
  /\ left.open = 0 /\ left.tab = TabsClicks /\ left.delete = TabsDeletes
  /\ left.rename = TabsConfirms
  /\ tasks = EmptyBag
  /\ Len(openFiles) = 1 /\ Len(tabs) = 1
  /\ activeTab = openFiles[1].key

\* the awaited requests of createFolder, deleteSelectedItem, confirmRename and
\* saveDescription that failed: not sent, or answered with an error
FailedMutations(B) ==
  {t \in BagToSet(B) :
     /\ t.k \in {"create", "delete", "rename", "save"}
     /\ ~t.ok
     /\ t.k = "save" => t.stage = "post"}

\* C13: when the request of createFolder, deleteSelectedItem, confirmRename
\* or saveDescription fails, neither the step that issues it nor the step that
\* delivers its failure changes FolderCache, ExpandedSet, OpenFile, activeTab,
\* SelectedItem or Descriptions.
C13_FailureTouchesNothing ==
  [][/\ \A t \in FailedMutations(tasks') :
          CopiesIn(t, tasks') > CopiesIn(t, tasks) =>
            UNCHANGED <<folderCache, expandedFolders, openFiles, activeTab,
                        selectedItem, descriptions>>
     /\ \A t \in FailedMutations(tasks) :
          CopiesIn(t, tasks') < CopiesIn(t, tasks) =>
            UNCHANGED <<folderCache, expandedFolders, openFiles, activeTab,
                        selectedItem, descriptions>>]_vars

\* a rename failed and its failure was delivered: the modal is still shown,
\* the confirm is spent and nothing is awaited
C13_Witness ==
  /\ modal = "rename" /\ left.rename = 0 /\ left.renameOpen = 0
  /\ tasks = EmptyBag
  /\ DOMAIN folderCache # {} /\ expandedFolders # {}

\* the calls of loadTree in B that started as t did and have not returned
TreeLoadsLike(B, t) ==
  SumCopies(B, {u \in BagToSet(B) :
                  /\ u.k = "refresh" /\ u.stage # "done"
                  /\ u.was = t.was /\ u.sel = t.sel /\ u.after = t.after
                  /\ {u.prev[i] : i \in 1..Len(u.prev)}
                       = {t.prev[i] : i \in 1..Len(t.prev)}})

\* this step ends the loadTree of t
LoadTreeCompleted(t) ==
  t.stage # "done" /\ TreeLoadsLike(tasks', t) < TreeLoadsLike(tasks, t)

\* p is gone from the server and no element is rendered for it as loadTree ends
Unresolved(p) == p # "/" /\ p \notin DOMAIN fs' /\ p \notin DOMAIN dom'

\* C14: when loadTree completes, a path that was expanded or selected when it
\* started and does not resolve any more is not in ExpandedSet and is not the
\* path of SelectedItem, and the tree is rendered, not the error.
C14_StaleDropped ==
  [][\A t \in Refreshes :
       LoadTreeCompleted(t) =>
         /\ \A i \in 1..Len(t.prev) :
              Unresolved(t.prev[i]) => t.prev[i] \notin expandedFolders'
         /\ t.was.sel # NoItem /\ Unresolved(t.was.sel.path) =>
              selectedItem'.path # t.was.sel.path
         /\ "/" \in DOMAIN dom']_vars

\* C14 for ExpandedSet alone
C14_StaleExpandedDropped ==
  [][\A t \in Refreshes :
       LoadTreeCompleted(t) =>
         \A i \in 1..Len(t.prev) :
           Unresolved(t.prev[i]) => t.prev[i] \notin expandedFolders']_vars

\* the awaited requests of createFolder, uploadFiles, deleteSelectedItem and
\* confirmRename that the server has carried out
MutationsDone ==
  {t \in BagToSet(tasks) : t.k \in {"create", "upload", "delete", "rename"} /\ t.ok}

\* the path above p
UpOf(p) ==
  LET n == CHOOSE i \in 1..Len(p) :
             CharAt(p, i) = "/" /\ \A j \in (i + 1)..Len(p) : CharAt(p, j) # "/"
  IN IF n = 1 THEN "/" ELSE SubSeq(p, 1, n - 1)

\* the folder whose listing the mutation t has changed
AffectedParent(t) ==
  IF t.k \in {"create", "upload"}
  THEN (IF t.path \in {NULL, "", "/"} THEN "/" ELSE t.path)
  ELSE IF t.k = "delete" THEN UpOf(t.path)
  ELSE UpOf(t.newPath)

\* the step from tasks to tasks' issues a request for the listing of parent,
\* which is not cached any more
ParentReloaded(parent) ==
  /\ parent \notin DOMAIN folderCache'
  /\ \E u \in BagToSet(tasks') :
       /\ u.k = "load" /\ u.path = parent /\ u.resp = buildTree(fs', parent)
       /\ CopiesIn(u, tasks') > CopiesIn(u, tasks)

\* the step from tasks to tasks' starts a reload of the tree and the
\* descriptions
AllReloaded ==
  \E u \in BagToSet(tasks') :
    u.k = "refresh" /\ u.stage = "root" /\ CopiesIn(u, tasks') > CopiesIn(u, tasks)

\* C15: the step that delivers the success of createFolder, uploadFiles,
\* deleteSelectedItem or confirmRename issues a fresh request for the listing
\* of the parent of the affected path when that folder is rendered in the
\* tree, and starts a reload of the tree and the descriptions when it is not.
C15_Reloaded ==
  [][\A t \in MutationsDone :
       CopiesIn(t, tasks') < CopiesIn(t, tasks) =>
         IF IsHeader(dom, AffectedParent(t))
         THEN ParentReloaded(AffectedParent(t))
         ELSE AllReloaded]_vars

\* C15 for the mutations other than createFolder, when the folder uploadFiles
\* reads from currentPath and the path confirmRename reads from renameData
\* after their awaits are those of the request
C15_ReloadedButCreate ==
  [][\A t \in MutationsDone :
       /\ t.k # "create"
       /\ t.k = "upload" => t.path = currentPath
       /\ t.k = "rename" => UpOf(t.newPath) = UpOf(renameData.path)
       /\ CopiesIn(t, tasks') < CopiesIn(t, tasks)
       =>
         IF IsHeader(dom, AffectedParent(t))
         THEN ParentReloaded(AffectedParent(t))
         ELSE AllReloaded]_vars

\* C16: normalizePath applied to what normalizePath returned returns the same
\* path, for every string, "" and "/", "a/b/" and "/a//b" among them.
C16_Idempotent ==
  \A i \in 2..Len(res) : res[i] = res[1]

\* normalizePath was called on "a/b/" and on what it returned
C16_Witness ==
  arg = "a/b/" /\ Len(res) >= 2 /\ res[1] = "/a/b"

\* s is the empty string or made of slashes alone
OnlySlashes(s) == \A i \in 1..Len(s) : SubSeq(s, i, i) = "/"

\* C17: what normalizePath returns begins with a slash, is "/" for an input
\* that is empty or all slashes, ends with no slash unless it is "/", and has
\* no two slashes in a row.
C17_Canonical ==
  Len(res) >= 1 =>
    LET n == res[1]
    IN /\ Len(n) >= 1 /\ SubSeq(n, 1, 1) = "/"
       /\ arg = NULL \/ OnlySlashes(arg) => n = "/"
       /\ n # "/" => SubSeq(n, Len(n), Len(n)) # "/"
       /\ \A i \in 1..(Len(n) - 1) : SubSeq(n, i, i + 1) # "//"

\* C17 without its last clause, on the empty segments
C17_CanonicalEnds ==
  Len(res) >= 1 =>
    LET n == res[1]
    IN /\ Len(n) >= 1 /\ SubSeq(n, 1, 1) = "/"
       /\ arg = NULL \/ OnlySlashes(arg) => n = "/"
       /\ n # "/" => SubSeq(n, Len(n), Len(n)) # "/"

\* C18: invalidateLoadedFolders("/a") on a cache with the keys /a, /a/b, /a/bc
\* and /x removes /a and /a/b, and leaves /a/bc and /x with their listings.
C18_SegmentPrefix ==
  (/\ Len(res) >= 1
   /\ arg \in {"/a", "/a/", "a"}
   /\ res[1] = {"/a", "/a/b", "/a/bc", "/x"})
  => (/\ DOMAIN folderCache = {"/a/bc", "/x"}
      /\ folderCache["/a/bc"] = ListingOf("/a/bc")
      /\ folderCache["/x"] = ListingOf("/x"))

\* C18, with /a/bc taken for what it is, a path below /a:
\* invalidateLoadedFolders("/a") on a cache with the keys /a, /a/b, /a/bc, /ab
\* and /x removes /a, /a/b and /a/bc, and leaves /ab, which shares only the
\* first characters of /a, and /x with their listings.
C18_BelowRemoved ==
  (/\ Len(res) >= 1
   /\ arg \in {"/a", "/a/", "a"}
   /\ res[1] = {"/a", "/a/b", "/a/bc", "/ab", "/x"})
  => (/\ DOMAIN folderCache = {"/ab", "/x"}
      /\ folderCache["/ab"] = ListingOf("/ab")
      /\ folderCache["/x"] = ListingOf("/x"))

\* invalidateLoadedFolders("/a") has run on the five keys
C18_Witness ==
  /\ arg = "/a" /\ res = <<{"/a", "/a/b", "/a/bc", "/ab", "/x"}>>
  /\ DOMAIN folderCache = {"/ab", "/x"}

\* C19: every entry of Descriptions, in the server's store and in the client's
\* copy, is a string that is not empty.
C19_NonEmpty ==
  /\ \A path \in DOMAIN sdesc : sdesc[path] # ""
  /\ \A path \in DOMAIN descriptions : descriptions[path] # ""

\* C19 for the server's store alone
C19_StoreNonEmpty ==
  \A path \in DOMAIN sdesc : sdesc[path] # ""

\* the calls of saveDescription that have not returned
Saves == {t \in BagToSet(tasks) : t.k = "save"}

\* the calls of saveDescription in B that started as t did
SavesLike(B, t) ==
  SumCopies(B, {u \in BagToSet(B) :
                  /\ u.k = "save" /\ u.was = t.was /\ u.file = t.file
                  /\ u.text = t.text /\ u.ok = t.ok})

\* this step ends the saveDescription of t
SaveCompleted(t) == SavesLike(tasks', t) < SavesLike(tasks, t)

\* C20: when a saveDescription whose request succeeded completes, every key
\* FolderCache held when it was called is a key of FolderCache with the same
\* listing.
C20_CacheKept ==
  [][\A t \in Saves :
       t.ok /\ SaveCompleted(t) =>
         \A key \in DOMAIN t.was.cache :
           key \in DOMAIN folderCache' /\ folderCache'[key] = t.was.cache[key]]_vars

\* C20 for the step that delivers the answer to the request of saveDescription
C20_CacheKeptByAnswer ==
  [][\A t \in Saves :
       t.ok /\ t.stage = "post" /\ CopiesIn(t, tasks') < CopiesIn(t, tasks) =>
         \A key \in DOMAIN folderCache :
           key \in DOMAIN folderCache' /\ folderCache'[key] = folderCache[key]]_vars

\* the requests of createFolder that the step from tasks to tasks' issues
CreatesIssued ==
  {t \in BagToSet(tasks') : t.k = "create" /\ CopiesIn(t, tasks') > CopiesIn(t, tasks)}

\* the path of the entry the request t of createFolder names
CreatedPath(t) ==
  IF AffectedParent(t) = "/" THEN "/" \o t.name ELSE AffectedParent(t) \o "/" \o t.name

\* C21: a createFolder whose name is that of an entry of the parent folder
\* leaves the server's directory as it was and fails at the client.
C21_CollisionFails ==
  [][\A t \in CreatesIssued :
       CreatedPath(t) \in DOMAIN fs => fs' = fs /\ ~t.ok]_vars

\* C21 for a name that is the name of a file
C21_FileCollisionFails ==
  [][\A t \in CreatesIssued :
       CreatedPath(t) \in DOMAIN fs /\ fs[CreatedPath(t)].type = "file" =>
         fs' = fs /\ ~t.ok]_vars

\* C21 for the server's directory alone
C21_CollisionKeepsTree ==
  [][\A t \in CreatesIssued : CreatedPath(t) \in DOMAIN fs => fs' = fs]_vars

\* the requests in flight in B for the listing of path
LoadsOf(B, path) ==
  SumCopies(B, {t \in BagToSet(B) : t.k = "load" /\ t.path = path})

\* the names a listing holds, in its order
NamesOf(children) == [i \in 1..Len(children) |-> children[i].name]

\* C22: a loadFolderChildren of a folder that is not cached issues a request
\* of its own while another for that folder is in flight; and of two
\* responses for one folder the one that completes last is the listing
\* FolderCache holds, whichever was asked first.
C22_NotShared ==
  /\ \A t \in LoadsInFlight :
       t.path \notin DOMAIN folderCache =>
         LET st == loadFolderChildren(Client, fs, t.path, FALSE, "none")
         IN /\ LoadsOf(st.tasks, t.path) = LoadsOf(tasks, t.path) + 1
            /\ st.cache = folderCache
  /\ \A t, u \in LoadsInFlight :
       ( /\ t.path = u.path /\ t.resp.ok /\ u.resp.ok
         /\ (t # u \/ CopiesIn(t, tasks) > 1) ) =>
         LET first == LoadSettled(Client, t, TRUE)
             last == LoadSettled(first, u, TRUE)
         IN /\ NamesOf(first.cache[t.path]) = NamesOf(t.resp.children)
            /\ NamesOf(last.cache[t.path]) = NamesOf(u.resp.children)

\* two requests for one folder were in flight with different answers; the one
\* asked last has completed and FolderCache holds the server's listing, the
\* one asked first is still to complete with a listing that is out of date
C22_Witness ==
  \E u \in LoadsInFlight :
    /\ u.resp.ok /\ u.path \in DOMAIN folderCache
    /\ NamesOf(folderCache[u.path]) = NamesOf(buildTree(fs, u.path).children)
    /\ NamesOf(u.resp.children) # NamesOf(folderCache[u.path])

\* p is oldPath or a path below it
AtOrBelow(p, oldPath) == p = oldPath \/ Below(p, oldPath)

\* C23: the step that delivers a successful rename rewrites ExpandedSet,
\* FolderCache, OpenFile, the tabs, activeTab and SelectedItem together: after
\* it each holds the moved paths of what it held and none holds oldPath or a
\* path below it, unless the new path is one of these.  (When the header of the parent is not rendered the step
\* goes on into loadTree, which takes ExpandedSet from the rendered headers.)
C23_RewrittenTogether ==
  [][\A t \in RenamesInFlight :
       RenameDelivered(t) =>
         LET oldPath == renameData.path
             to(p) == Moved(p, oldPath, t.newPath)
             rendered == {p \in DOMAIN dom : dom[p].type = "folder" /\ dom[p].expanded}
             old(p) == ~AtOrBelow(t.newPath, oldPath) /\ AtOrBelow(p, oldPath)
         IN /\ \A p \in expandedFolders' : ~old(p)
            /\ expandedFolders' = (IF IsHeader(dom, UpOf(oldPath))
                                   THEN {to(p) : p \in expandedFolders}
                                   ELSE rendered)
            /\ \A key \in DOMAIN folderCache' :
                 /\ ~old(key)
                 /\ \E was \in DOMAIN folderCache : key = to(was)
            /\ {e.key : e \in Entries(openFiles')}
                 = {to(e.key) : e \in Entries(openFiles)}
            /\ [i \in 1..Len(tabs') |-> tabs'[i].file]
                 = [i \in 1..Len(tabs) |-> to(tabs[i].file)]
            /\ activeTab' = (IF activeTab = NULL THEN NULL ELSE to(activeTab))
            /\ selectedItem'.path
                 = (IF selectedItem = NoItem THEN NULL ELSE to(selectedItem.path))
            /\ modal' = "none"]_vars

\* folder /a, expanded and selected, with its file /a/x open in the active
\* tab, has been renamed to c and the reload that follows is in flight
C23_Witness ==
  /\ "/c" \in expandedFolders /\ "/a" \notin expandedFolders
  /\ selectedItem.path = "/c" /\ activeTab = "/c/x"
  /\ \E e \in Entries(openFiles) : e.key = "/c/x"
  /\ \E i \in 1..Len(tabs) : tabs[i].file = "/c/x"
  /\ modal = "none" /\ RenamesInFlight = {}
  /\ \E u \in BagToSet(tasks) : u.k \in {"load", "refresh"} /\ u.after = "rename"

\* the server lists folder P now
Listed(P) == buildTree(fs, P).ok

\* C24: once a createFolder, uploadFiles, deleteItem or renameItem has
\* completed and no request is outstanding, a listing FolderCache holds for a
\* folder of the server is the one the server gives after the mutation.
C24_NoStaleListing ==
  tasks = EmptyBag =>
    \A P \in DOMAIN folderCache :
      Listed(P) => NamesOf(folderCache[P]) = NamesOf(buildTree(fs, P).children)

\* the one rename of the behaviour has succeeded and completed, its reload
\* too, and no openFileInTab is in flight
RenameAndOpensDone ==
  /\ left.rename = 0 /\ fs # InitialFs
  /\ \A t \in BagToSet(tasks) :
       /\ t.k \notin {"rename", "open"}
       /\ t.k \in {"load", "refresh"} => t.after # "rename"

\* C25: after a successful rename of oldPath has completed and every
\* openFileInTab in flight has resolved, no key of OpenFile is oldPath or a
\* path below it, and activeTab is neither.
C25_NoOldKeys ==
  RenameAndOpensDone =>
    /\ \A e \in Entries(openFiles) : ~AtOrBelow(e.key, renameData.path)
    /\ activeTab # NULL => ~AtOrBelow(activeTab, renameData.path)

\* C26: in every state with no request outstanding, however the calls of
\* openFileInTab were interleaved, no two tabs are of one path and the paths
\* of the tabs are the keys of OpenFile.
C26_OneTabPerPath ==
  tasks = EmptyBag =>
    /\ \A i, j \in 1..Len(tabs) : tabs[i].file = tabs[j].file => i = j
    /\ {tabs[i].file : i \in 1..Len(tabs)} = {e.key : e \in Entries(openFiles)}

\* C26 without its first half: the paths of the tabs are the keys of OpenFile
\* as long as no tab has been closed, no item deleted and none renamed
C26_TabPathsAreKeys ==
  ( /\ left.tab = TabsClicks /\ left.delete = TabsDeletes
    /\ left.rename = TabsConfirms ) =>
    {tabs[i].file : i \in 1..Len(tabs)} = {e.key : e \in Entries(openFiles)}

\* C27: whenever no handler is running, currentFile is activeTab.
C27_CurrentFileIsActive == currentFile = activeTab

\* C27 as long as no rename has been answered
C27_CurrentFileIsActiveUnrenamed ==
  (left.rename = RenameConfirms \/ RenamesInFlight # {} \/ fs = InitialFs) =>
    currentFile = activeTab

\* C28: when the loadTree of a refreshTreeAndDescriptions completes, a folder
\* F having been selected with currentPath = F when it started, F still on
\* the server and the user having clicked nothing meanwhile, currentPath is F.
C28_TargetKept ==
  [][\A t \in Refreshes :
       ( /\ LoadTreeCompleted(t) /\ Untouched(t)
         /\ t.was.sel.type = "folder" /\ t.was.cur = t.was.sel.path
         /\ t.was.sel.path \in DOMAIN fs' ) =>
         currentPath' = t.was.sel.path]_vars

\* C28 for the selection: the folder is still the selected item
C28_SelectionKept ==
  [][\A t \in Refreshes :
       ( /\ LoadTreeCompleted(t) /\ Untouched(t)
         /\ t.was.sel.type = "folder" /\ t.was.cur = t.was.sel.path
         /\ t.was.sel.path \in DOMAIN fs' /\ left.delete = StaleDeletes ) =>
         selectedItem' = t.was.sel]_vars

\* the one delete of the behaviour has succeeded and completed, its reload too
DeleteDone ==
  /\ left.delete = 0 /\ fs # InitialFs
  /\ \A t \in BagToSet(tasks) :
       /\ t.k # "delete"
       /\ t.k \in {"load", "refresh"} => t.after # "delete"

\* C29: after a successful delete of path has completed, ExpandedSet holds
\* neither path nor a path below it.
C29_DeletedNotExpanded ==
  DeleteDone => \A p \in DOMAIN InitialFs \ DOMAIN fs : p \notin expandedFolders

\* C29 for the step that delivers the delete: it takes nothing out of
\* ExpandedSet that the reload it starts does not
C29_DeliveryKeepsExpanded ==
  [][\A t \in DeletesInFlight :
       DeleteDelivered(t) /\ IsHeader(dom, UpOf(t.path)) =>
         expandedFolders' = expandedFolders]_vars

\* the one rename of the behaviour has succeeded and completed, its reload
\* too, and no request is outstanding
RenameDone == left.rename = 0 /\ fs # InitialFs /\ tasks = EmptyBag

\* the map d holds text under the path the rename of oldPath gave p, and
\* nothing under p
Followed(d, p, text, oldPath) ==
  /\ p \notin DOMAIN d
  /\ \E newName \in TypedNames :
       LET newPath == (IF UpOf(oldPath) = "/" THEN "" ELSE UpOf(oldPath))
                        \o "/" \o newName
       IN /\ newPath \in DOMAIN fs
          /\ Moved(p, oldPath, newPath) \in DOMAIN d
          /\ d[Moved(p, oldPath, newPath)] = text

\* C30: after a successful rename of oldPath and its reload have completed,
\* every description that was held for oldPath or a path below it is held
\* under the moved path, and not under the old one, by the client's
\* Descriptions and by the server's store.
C30_DescriptionsFollow ==
  RenameDone =>
    \A p \in DOMAIN InitialDescriptions :
      AtOrBelow(p, renameData.path) =>
        /\ Followed(descriptions, p, InitialDescriptions[p], renameData.path)
        /\ Followed(sdesc, p, InitialDescriptions[p], renameData.path)

\* C30 for the server's store and the renamed path itself
C30_ServerFollowsExact ==
  RenameDone =>
    \A p \in DOMAIN InitialDescriptions :
      p = renameData.path =>
        Followed(sdesc, p, InitialDescriptions[p], renameData.path)

\* the folders whose listing a behaviour may reload
ReloadedFolders == {"/", "/a", "/a/b", "/ab", "/c", "/y", "/a/c"}

\* the listing of P is being reloaded, restoreExpandedChildren(P) to follow
Reloading(P) == \E t \in LoadsInFlight : t.restore /\ t.path = P

\* no load is pending, and every expanded path under P whose header is
\* rendered with children has its listing cached
Restored(P) ==
  /\ LoadsInFlight = {}
  /\ \A p \in expandedFolders :
       ( /\ ProperAncestor(P, p)
         /\ p \in DOMAIN dom /\ dom[p].type = "folder" /\ dom[p].hasChildren ) =>
         p \in DOMAIN folderCache

\* the calls restoreExpandedChildren makes of itself from the answer of the
\* load t come to an end
ChainEnds(t) ==
  LET st == LoadSettled(Taken(t), t, TRUE)
  IN restoreExpandedChildren(st, fs, <<t.path>>, MaxRestore)
       = restoreExpandedChildren(st, fs, <<t.path>>, 2 * MaxRestore)

\* the steps that leave `left` alone are the responses
ResponsesKeepLeft ==
  [][(left' = left) <=> (\/ LoadResponse \/ TreeResponse
                        \/ DescriptionsResponse \/ CreateFolderResponse)]_vars

\* every outstanding request is one that a response can answer
Answerable ==
  \A t \in BagToSet(tasks) :
    \/ t.k \in {"load", "create"}
    \/ t.k = "refresh" /\ (t.stage # "done" \/ ~t.descDone)

\* C31: every request being answered, the re-expansions that follow the
\* reload of the listing of P come to an end: the calls made at one answer
\* are finitely many, and in the end no load is pending and every expanded
\* path under P that is rendered with children has its listing cached.
C31_RestoreTerminates ==
  /\ [](\A t \in LoadsInFlight : t.restore => ChainEnds(t))
  /\ []Answerable
  /\ \A P \in ReloadedFolders : Reloading(P) ~> Restored(P)

\* the root's listing was reloaded after a folder was created in it, and the
\* expanded /a and /a/b below it have been loaded again, one after the other
C31_Witness ==
  /\ left.create = 0 /\ "/c" \in DOMAIN fs
  /\ {"/", "/a", "/a/b"} \subseteq expandedFolders
  /\ {"/", "/a", "/a/b"} \subseteq DOMAIN folderCache
  /\ \E i \in 1..Len(folderCache["/"]) : folderCache["/"][i].path = "/c"
  /\ tasks = EmptyBag

====
